---- MODULE Spec2Model ----
(***************************************************************************)
(* Model of the barcode allocation engine of AtovioScanner (db.py, app.py). *)
(* Strings are sequences of one-character strings, so that strip, upper,   *)
(* zero-padding and the barcode regular expressions are computed as the    *)
(* code computes them.                                                     *)
(***************************************************************************)
EXTENDS Integers, Sequences, FiniteSets, TLC

\* ------------------------------------------------------------------------
\* Bounds of the model
\* ------------------------------------------------------------------------
MaxRows == 2

\* ------------------------------------------------------------------------
\* Characters and Python string helpers
\* ------------------------------------------------------------------------
UpperLetters == {"A", "C", "D", "E", "F", "I", "L", "M", "N", "O", "P", "Q", "R", "S",
                 "T", "U", "W", "X", "Y"}
LowerLetters == {"a", "p", "q", "t", "w"}
DigitChars == {"0", "1", "2", "3", "4", "5", "6", "7", "8", "9"}

ToUpper == [c \in LowerLetters |->
              CASE c = "a" -> "A" [] c = "p" -> "P" [] c = "q" -> "Q"
                [] c = "t" -> "T" [] c = "w" -> "W"]

LoweredLetters == {"A", "P", "Q", "T", "W"}

ToLower == [c \in LoweredLetters |->
              CASE c = "A" -> "a" [] c = "P" -> "p" [] c = "Q" -> "q"
                [] c = "T" -> "t" [] c = "W" -> "w"]

AlphaChars == UpperLetters \cup LowerLetters
AlnumChars == AlphaChars \cup DigitChars

IsAlpha(c) == c \in AlphaChars
IsDigit(c) == c \in DigitChars
IsAlnum(c) == c \in AlnumChars

\* str.upper()
Upper(s) == [i \in 1..Len(s) |-> IF s[i] \in LowerLetters THEN ToUpper[s[i]] ELSE s[i]]

\* str.lower()
Lower(s) == [i \in 1..Len(s) |-> IF s[i] \in LoweredLetters THEN ToLower[s[i]] ELSE s[i]]

\* str.strip(): drop leading and trailing blanks
RECURSIVE LStrip(_)
LStrip(s) == IF s # <<>> /\ Head(s) = " " THEN LStrip(Tail(s)) ELSE s

RECURSIVE RStrip(_)
RStrip(s) == IF s # <<>> /\ s[Len(s)] = " " THEN RStrip(SubSeq(s, 1, Len(s) - 1)) ELSE s

Strip(s) == RStrip(LStrip(s))

\* _norm(s) = (s or "").strip()
Norm(s) == Strip(s)

\* str.zfill(n) on a digit string
Zfill(d, n) == IF Len(d) >= n THEN d ELSE [i \in 1..(n - Len(d)) |-> "0"] \o d

\* str(int) for a natural number
DigitOf(k) == CASE k = 0 -> "0" [] k = 1 -> "1" [] k = 2 -> "2" [] k = 3 -> "3"
                [] k = 4 -> "4" [] k = 5 -> "5" [] k = 6 -> "6" [] k = 7 -> "7"
                [] k = 8 -> "8" [] k = 9 -> "9"

RECURSIVE StrOfNat(_)
StrOfNat(n) == IF n < 10 THEN <<DigitOf(n)>> ELSE StrOfNat(n \div 10) \o <<DigitOf(n % 10)>>

\* int(str): value of a digit string
ValOf(c) == CHOOSE k \in 0..9 : DigitOf(k) = c

RECURSIVE NatOfStr(_)
NatOfStr(s) == IF s = <<>> THEN 0
               ELSE 10 * NatOfStr(SubSeq(s, 1, Len(s) - 1)) + ValOf(s[Len(s)])

AllDigits(s) == \A i \in 1..Len(s) : IsDigit(s[i])
AllAlpha(s) == \A i \in 1..Len(s) : IsAlpha(s[i])
AllAlnum(s) == \A i \in 1..Len(s) : IsAlnum(s[i])

\* ------------------------------------------------------------------------
\* SKU normalisation
\* ------------------------------------------------------------------------
\* _sku_norm: uppercase, alphanumerics only
SkuNorm(s) == SelectSeq(Upper(s), IsAlnum)

\* number of leading letters of s
RECURSIVE LeadAlpha(_)
LeadAlpha(s) == IF s # <<>> /\ IsAlpha(Head(s)) THEN 1 + LeadAlpha(Tail(s)) ELSE 0

\* k when the k leading letters of s are followed by digits only, else 0
LettersThenDigits(s, k) ==
    IF k >= 1 /\ k < Len(s) /\ AllDigits(SubSeq(s, k + 1, Len(s))) THEN k ELSE 0

\* length of the letter prefix when s matches ^([A-Z]+)(\d+)$, else 0
SplitAt(s) == LettersThenDigits(s, LeadAlpha(s))

\* digits[-4:] if len(digits) >= 4 else digits.zfill(4)
LastFour(digits) ==
    IF Len(digits) >= 4 THEN SubSeq(digits, Len(digits) - 3, Len(digits)) ELSE Zfill(digits, 4)

\* s when the match failed (k = 0), else prefix + tail
PrefixTail(s, k) ==
    IF k = 0 THEN s ELSE SubSeq(s, 1, k) \o LastFour(SubSeq(s, k + 1, Len(s)))

\* _normalize_sku_for_db after _sku_norm
PadNormed(s) == PrefixTail(s, SplitAt(s))

\* _normalize_sku_for_db: 'AT1' -> 'AT0001'
NormalizeSkuForDb(raw) == PadNormed(SkuNorm(raw))

\* ------------------------------------------------------------------------
\* Master data: data/sku_master.csv and data/extras_noscan.csv
\* ------------------------------------------------------------------------
AT0001 == <<"A", "T", "0", "0", "0", "1">>
LS0002 == <<"L", "S", "0", "0", "0", "2">>
NS0003 == <<"N", "S", "0", "0", "0", "3">>
UN0004 == <<"U", "N", "0", "0", "0", "4">>

\* _load_sku_master(): {sku: {name, display_name, type}}
LoadSkuMaster ==
    (AT0001 :> [name |-> <<"P">>, display_name |-> <<"P", "A">>, type |-> "Compulsory"])
    @@ (LS0002 :> [name |-> <<"Q">>, display_name |-> <<>>, type |-> "Loose"])
    @@ (NS0003 :> [name |-> <<"T">>, display_name |-> <<>>, type |-> "Compulsory"])

\* _load_extras_noscan(): set of SKU_NORM never scanned
LoadExtrasNoscan == {NS0003}

\* _sku_type on k = _sku_norm(sku): NoScan takes precedence over the master type
TypeOfKey(k) ==
    IF k = <<>> THEN "Unknown"
    ELSE IF k \in LoadExtrasNoscan THEN "NoScan"
    ELSE IF k \in DOMAIN LoadSkuMaster THEN LoadSkuMaster[k].type
    ELSE "Unknown"

\* _sku_type
SkuType(sku) == TypeOfKey(SkuNorm(sku))

\* info.get("display_name") or info.get("name") or fallback
NameOfInfo(info, fallback) ==
    IF info.display_name # <<>> THEN info.display_name
    ELSE IF info.name # <<>> THEN info.name
    ELSE fallback

\* _canonical_name_for_sku on k = _sku_norm(sku)
NameOfKey(k, fallback) ==
    IF k \notin DOMAIN LoadSkuMaster THEN fallback ELSE NameOfInfo(LoadSkuMaster[k], fallback)

\* _canonical_name_for_sku: display_name, else name, else fallback
CanonicalNameForSku(sku, fallback) == NameOfKey(SkuNorm(sku), fallback)

\* ------------------------------------------------------------------------
\* Rows of the CSV store
\* ------------------------------------------------------------------------
\* int(q or "0"), 0 when int() raises
IntOrZero(q) == IF q # <<>> /\ AllDigits(q) THEN NatOfStr(q) ELSE 0

\* _row_qty: int(quantity) or 0
RowQty(row) == IntOrZero(Strip(row.quantity))

\* str.split(","): the pieces between commas
RECURSIVE SplitComma(_, _)
SplitComma(s, cur) ==
    IF s = <<>> THEN <<cur>>
    ELSE IF Head(s) = "," THEN <<cur>> \o SplitComma(Tail(s), <<>>)
    ELSE SplitComma(Tail(s), Append(cur, Head(s)))

NonBlankTok(t) == Strip(t) # <<>>

\* tok.strip().upper() for tok in parts
StripUpperAll(parts) == [i \in 1..Len(parts) |-> Upper(Strip(parts[i]))]

\* _pid_list: tokens of product_id, stripped and uppercased, blanks dropped
PidList(raw) ==
    IF raw = <<>> THEN <<>>
    ELSE StripUpperAll(SelectSeq(SplitComma(raw, <<>>), NonBlankTok))

\* _pid_list_to_str: ",".join(pids)
RECURSIVE PidListToStr(_)
PidListToStr(pids) ==
    IF pids = <<>> THEN <<>>
    ELSE IF Len(pids) = 1 THEN pids[1]
    ELSE pids[1] \o <<",">> \o PidListToStr(Tail(pids))

\* _row_done_units counting at most one token
RowDoneUnitsAtMostOne(row) == IF PidList(row.product_id) = <<>> THEN 0 ELSE 1

\* _row_done_units
RowDoneUnits(row) == Len(PidList(row.product_id))

\* max(1, n)
MaxOne(n) == IF n > 0 THEN n ELSE 1

\* max(0, n)
MaxZero(n) == IF n > 0 THEN n ELSE 0

\* _row_remaining_units with the assigned tokens not subtracted
RowRemainingUnitsOfQty(row) == MaxZero(RowQty(row))

\* _row_remaining_units: max(0, qty - done)
RowRemainingUnits(row) == MaxZero(RowQty(row) - RowDoneUnits(row))

\* _norm_key: the tuple that is hashed (sha1 taken as injective)
NormKey(r) ==
    << Upper(Norm(r.awb)),
       Lower(CanonicalNameForSku(r.sku, Norm(r.product_name))),
       NormalizeSkuForDb(r.sku),
       Strip(r.quantity) >>

\* the smallest index of a set of row indices
MinOf(S) == CHOOSE i \in S : \A j \in S : i <= j

\* ------------------------------------------------------------------------
\* upsert_orders
\* ------------------------------------------------------------------------
\* newr for an input row whose normalised SKU is sku_norm (row_id still blank)
NewRowOfSku(r, sku_norm, source_file, now) ==
    [ order_date |-> Norm(r.order_date),
      order_id |-> Norm(r.order_id),
      customer_name |-> Norm(r.customer_name),
      contact_number |-> Norm(r.contact_number),
      product_name |-> CanonicalNameForSku(sku_norm, Norm(r.product_name)),
      sku |-> sku_norm,
      quantity |-> Strip(StrOfNat(r.quantity)),
      awb |-> Norm(r.awb),
      product_id |-> <<>>,
      row_id |-> <<>>,
      created_at |-> now,
      source_file |-> IF source_file # <<>> THEN source_file ELSE Norm(r.source_file),
      page_index |-> Strip(r.page_index) ]

\* the row built from one input row
NewRow(r, source_file, now) == NewRowOfSku(r, NormalizeSkuForDb(r.sku), source_file, now)

\* row_id = md5(key|now)[:12], the hash taken as injective
RowIdOf(k, now) == <<k, now>>

\* the loop over the input rows: acc = [rows, existing, added]
RECURSIVE UpsertLoop(_, _, _, _)

\* UpsertKeyed that does not record the key of the row it appends
UpsertKeyedUnrecorded(rest, source_file, now, acc, newr, k) ==
    IF k \in acc.existing
    THEN UpsertLoop(rest, source_file, now, acc)
    ELSE UpsertLoop(rest, source_file, now,
            [ rows |-> Append(acc.rows, [newr EXCEPT !.row_id = RowIdOf(k, now)]),
              existing |-> acc.existing,
              added |-> acc.added + 1 ])

\* UpsertKeyed putting the new row in front of the stored ones
UpsertKeyedInFront(rest, source_file, now, acc, newr, k) ==
    IF k \in acc.existing
    THEN UpsertLoop(rest, source_file, now, acc)
    ELSE UpsertLoop(rest, source_file, now,
            [ rows |-> <<[newr EXCEPT !.row_id = RowIdOf(k, now)]>> \o acc.rows,
              existing |-> acc.existing \cup {k},
              added |-> acc.added + 1 ])

\* one turn of the loop for the row newr of key k: skipped when k is known,
\* else appended with its row_id
UpsertKeyed(rest, source_file, now, acc, newr, k) ==
    IF k \in acc.existing
    THEN UpsertLoop(rest, source_file, now, acc)
    ELSE UpsertLoop(rest, source_file, now,
            [ rows |-> Append(acc.rows, [newr EXCEPT !.row_id = RowIdOf(k, now)]),
              existing |-> acc.existing \cup {k},
              added |-> acc.added + 1 ])

\* one turn of the loop for the row newr: k = _norm_key(newr)
UpsertRow(rest, source_file, now, acc, newr) ==
    UpsertKeyed(rest, source_file, now, acc, newr, NormKey(newr))

UpsertLoop(rows, source_file, now, acc) ==
    IF rows = <<>> THEN acc
    ELSE UpsertRow(Tail(rows), source_file, now, acc, NewRow(Head(rows), source_file, now))

\* what upsert_orders leaves and returns after the loop
UpsertResult(acc) == [rows |-> acc.rows, added |-> acc.added, wrote |-> acc.added > 0]

\* upsert_orders that dedups inside the input list only
UpsertOrdersNoExisting(db_rows, rows, source_file, now) ==
    IF rows = <<>> THEN [rows |-> db_rows, added |-> 0, wrote |-> FALSE]
    ELSE UpsertResult(UpsertLoop(rows, source_file, now,
                        [rows |-> db_rows, existing |-> {}, added |-> 0]))

\* upsert_orders: [rows |-> the store after the call, added |-> the count returned,
\* wrote |-> whether _write_all ran]
UpsertOrders(db_rows, rows, source_file, now) ==
    IF rows = <<>> THEN [rows |-> db_rows, added |-> 0, wrote |-> FALSE]
    ELSE UpsertResult(UpsertLoop(rows, source_file, now,
                        [ rows |-> db_rows,
                          existing |-> {NormKey(db_rows[i]) : i \in 1..Len(db_rows)},
                          added |-> 0 ]))

\* ------------------------------------------------------------------------
\* assign_product_id (legacy)
\* ------------------------------------------------------------------------
\* a failed call: nothing written
LegacyFail(db_rows, err, status) ==
    [ok |-> FALSE, status |-> status, err |-> err, rows |-> db_rows, wrote |-> FALSE, changed |-> 0]

\* AssignUnlessConflict setting product_id before it reports the conflict
AssignThenConflict(db_rows, product_id, existing, toset) ==
    [ ok |-> ~(existing # {} /\ (Cardinality(existing) > 1
                                  \/ (Cardinality(existing) = 1 /\ product_id \notin existing))),
      status |-> IF existing # {} /\ (Cardinality(existing) > 1
                                      \/ (Cardinality(existing) = 1 /\ product_id \notin existing))
                 THEN 409 ELSE 200,
      err |-> IF existing # {} /\ (Cardinality(existing) > 1
                                   \/ (Cardinality(existing) = 1 /\ product_id \notin existing))
              THEN "Conflict" ELSE "",
      rows |-> [i \in 1..Len(db_rows) |->
                  IF i \in toset THEN [db_rows[i] EXCEPT !.product_id = product_id]
                  ELSE db_rows[i]],
      wrote |-> toset # {},
      changed |-> Cardinality(toset) ]

\* the conflict test, then product_id set on the rows toset that have none
AssignUnlessConflict(db_rows, product_id, existing, toset) ==
    IF existing # {} /\ (Cardinality(existing) > 1
                          \/ (Cardinality(existing) = 1 /\ product_id \notin existing))
    THEN LegacyFail(db_rows, "Conflict", 409)
    ELSE [ ok |-> TRUE, status |-> 200, err |-> "",
           rows |-> [i \in 1..Len(db_rows) |->
                       IF i \in toset THEN [db_rows[i] EXCEPT !.product_id = product_id]
                       ELSE db_rows[i]],
           wrote |-> toset # {},
           changed |-> Cardinality(toset) ]

\* idxs: the rows of the AWB
AssignOnRows(db_rows, product_id, idxs) ==
    IF idxs = {} THEN LegacyFail(db_rows, "NotFound", 404)
    ELSE AssignUnlessConflict(db_rows, product_id,
            {Norm(db_rows[i].product_id) : i \in {j \in idxs : Norm(db_rows[j].product_id) # <<>>}},
            {i \in idxs : Norm(db_rows[i].product_id) = <<>>})

\* assign_product_id after awb, product_id = _norm(awb), _norm(product_id).upper()
AssignNormed(db_rows, awb, product_id) ==
    IF awb = <<>> \/ product_id = <<>> THEN LegacyFail(db_rows, "Required", 400)
    ELSE AssignOnRows(db_rows, product_id, {i \in 1..Len(db_rows) : Norm(db_rows[i].awb) = awb})

\* assign_product_id: [ok, status, err, rows, wrote, changed]
AssignProductId(db_rows, awb_in, product_id_in) ==
    AssignNormed(db_rows, Norm(awb_in), Upper(Norm(product_id_in)))

\* ------------------------------------------------------------------------
\* confirm_extra
\* ------------------------------------------------------------------------
CONFIRMED_EXTRA == <<"C", "O", "N", "F", "I", "R", "M", "E", "D", "_", "E", "X", "T", "R", "A">>

\* row ids are compared after _norm; a blank id is the empty string
NoRowId == <<>>

\* a failed call: nothing written
ConfirmFail(db_rows, err, status) ==
    [ok |-> FALSE, status |-> status, err |-> err, rows |-> db_rows, wrote |-> FALSE]

\* ConfirmRow with Loose SKUs taken as eligible too
ConfirmRowLooseToo(db_rows, i, sku) ==
    IF sku # <<>> /\ SkuType(sku) \notin {"NoScan", "Loose"} THEN ConfirmFail(db_rows, "Conflict", 409)
    ELSE [ ok |-> TRUE, status |-> 200, err |-> "",
           rows |-> [db_rows EXCEPT ![i].product_id = CONFIRMED_EXTRA],
           wrote |-> TRUE ]

\* the eligibility test on the row found, then the sentinel
ConfirmRow(db_rows, i, sku) ==
    IF sku # <<>> /\ SkuType(sku) # "NoScan" THEN ConfirmFail(db_rows, "Conflict", 409)
    ELSE [ ok |-> TRUE, status |-> 200, err |-> "",
           rows |-> [db_rows EXCEPT ![i].product_id = CONFIRMED_EXTRA],
           wrote |-> TRUE ]

\* the first row whose row_id matches, if any
ConfirmAmong(db_rows, hits) ==
    IF hits = {} THEN ConfirmFail(db_rows, "NotFound", 404)
    ELSE ConfirmRow(db_rows, MinOf(hits), Norm(db_rows[MinOf(hits)].sku))

\* confirm_extra without the eligibility test
ConfirmExtraAnyRow(db_rows, row_id) ==
    LET hits == {i \in 1..Len(db_rows) : db_rows[i].row_id = row_id}
    IN IF row_id = NoRowId THEN ConfirmFail(db_rows, "Required", 400)
       ELSE IF hits = {} THEN ConfirmFail(db_rows, "NotFound", 404)
       ELSE [ ok |-> TRUE, status |-> 200, err |-> "",
              rows |-> [db_rows EXCEPT ![MinOf(hits)].product_id = CONFIRMED_EXTRA],
              wrote |-> TRUE ]

\* confirm_extra: [ok, status, err, rows, wrote]
ConfirmExtra(db_rows, row_id) ==
    IF row_id = NoRowId THEN ConfirmFail(db_rows, "Required", 400)
    ELSE ConfirmAmong(db_rows, {i \in 1..Len(db_rows) : db_rows[i].row_id = row_id})

\* ------------------------------------------------------------------------
\* Barcode grammar
\* ------------------------------------------------------------------------
\* index of the first "-" of s, 0 when there is none
DashPos(s) == IF \E i \in 1..Len(s) : s[i] = "-"
              THEN CHOOSE i \in 1..Len(s) : s[i] = "-" /\ \A j \in 1..(i - 1) : s[j] # "-"
              ELSE 0

\* [A-Za-z]{2,}\d+
SkuShape(s) == SplitAt(s) >= 2

\* (\d{1,4}) after the letter
PrimaryDigits(left, letter, digits) ==
    IF Len(digits) \in 1..4 /\ AllDigits(digits) THEN <<left, <<letter>>, digits>> ELSE <<>>

\* ([A-Za-z]{2,}\d+) on the left of the dash, ([A-Za-z])\s*(\d{1,4}) on its right
PrimaryParts(left, right) ==
    IF ~SkuShape(left) \/ right = <<>> THEN <<>>
    ELSE IF IsAlpha(right[1]) THEN PrimaryDigits(left, right[1], LStrip(Tail(right)))
    ELSE <<>>

\* _BARCODE_RX_PRIMARY with the dash at d
PrimaryAt(code, d) ==
    IF d = 0 THEN <<>>
    ELSE PrimaryParts(Strip(SubSeq(code, 1, d - 1)), Strip(SubSeq(code, d + 1, Len(code))))

\* _BARCODE_RX_PRIMARY: sku - letter digits{1,4}; <<>> when no match,
\* else <<sku_raw, letter, digits>>
BarcodeRxPrimary(code) == PrimaryAt(code, DashPos(code))

\* ([A-Za-z]{2,}\d+) alone
GenericBare(s) == IF SkuShape(s) THEN <<s, <<>>>> ELSE <<>>

\* ([A-Za-z]{2,}\d+) on the left of the dash, ([A-Za-z0-9]{1,10}) on its right
GenericParts(left, right) ==
    IF SkuShape(left) /\ Len(right) \in 1..10 /\ AllAlnum(right) THEN <<left, right>> ELSE <<>>

\* _BARCODE_RX_GENERIC with the dash at d
GenericAt(code, d) ==
    IF d = 0 THEN GenericBare(Strip(code))
    ELSE GenericParts(Strip(SubSeq(code, 1, d - 1)), Strip(SubSeq(code, d + 1, Len(code))))

\* _BARCODE_RX_GENERIC: sku, optionally - alnum{1,10}; <<>> when no match,
\* else <<sku_raw, token>> with token = <<>> when the suffix is absent
BarcodeRxGeneric(code) == GenericAt(code, DashPos(code))

\* "L%06d" % (ms % 1000000)
AutoToken(ms) == <<"L">> \o Zfill(StrOfNat(ms % 1000000), 6)

\* what _parse_barcode returns: an error with its status, or (sku4, pid)
ParseFail(err, status) == [ok |-> FALSE, sku4 |-> <<>>, pid |-> <<>>, err |-> err, status |-> status]
ParseGood(sku4, pid) == [ok |-> TRUE, sku4 |-> sku4, pid |-> pid, err |-> "", status |-> 200]

\* ParseDevice without the NoScan test
ParseDeviceAnyType(sku4, pid) == ParseGood(sku4, pid)

\* device format matched
ParseDevice(sku4, pid) ==
    IF SkuType(sku4) = "NoScan" THEN ParseFail("NoScanRejected", 409) ELSE ParseGood(sku4, pid)

\* ParseGenericTyped taking a suffix as the token whatever the type
ParseGenericTypedAnyToken(sku4, t, token, ms) ==
    IF t = "NoScan" THEN ParseFail("NoScanRejected", 409)
    ELSE IF token # <<>> /\ Strip(token) # <<>> THEN ParseGood(sku4, Upper(Strip(token)))
    ELSE IF t = "Loose" THEN ParseGood(sku4, AutoToken(ms))
    ELSE ParseFail("InvalidBarcode", 400)

\* generic format matched, t = _sku_type(sku4)
ParseGenericTyped(sku4, t, token, ms) ==
    IF t = "NoScan" THEN ParseFail("NoScanRejected", 409)
    ELSE IF t = "Loose"
    THEN IF token # <<>> /\ Strip(token) # <<>>
         THEN ParseGood(sku4, Upper(Strip(token)))
         ELSE ParseGood(sku4, AutoToken(ms))
    ELSE IF token # <<>> THEN ParseFail("DeviceFormatRequired", 400)
    ELSE ParseFail("InvalidBarcode", 400)

\* generic format matched
ParseGeneric(sku4, token, ms) == ParseGenericTyped(sku4, SkuType(sku4), token, ms)

\* _parse_barcode on the matches m (device) and m2 (generic)
ParseMatched(m, m2, ms) ==
    IF m # <<>> THEN ParseDevice(NormalizeSkuForDb(m[1]), Upper(m[2]) \o Zfill(m[3], 4))
    ELSE IF m2 # <<>> THEN ParseGeneric(NormalizeSkuForDb(m2[1]), m2[2], ms)
    ELSE ParseFail("InvalidBarcode", 400)

\* _parse_barcode after code = code.strip()
ParseStripped(code, ms) == ParseMatched(BarcodeRxPrimary(code), BarcodeRxGeneric(code), ms)

\* _parse_barcode: [ok, sku4, pid, err, status]
ParseBarcode(code_in, ms) == ParseStripped(Strip(code_in), ms)

\* _product_id_exists_anywhere comparing pid with the whole product_id field
ProductIdExistsAsWhole(pid_in, rows) ==
    LET pid == Upper(Norm(pid_in))
    IN pid # <<>> /\ \E i \in 1..Len(rows) : Upper(Norm(rows[i].product_id)) = pid

\* _product_id_exists_anywhere looking only at the rows that can be scanned
ProductIdExistsOnScannable(pid_in, rows) ==
    LET pid == Upper(Norm(pid_in))
    IN pid # <<>> /\ \E i \in 1..Len(rows) :
                        LET pl == PidList(rows[i].product_id)
                        IN /\ Norm(rows[i].sku) # <<>>
                           /\ SkuType(rows[i].sku) # "NoScan"
                           /\ \E j \in 1..Len(pl) : pl[j] = pid

\* pid in a list of tokens
InPidList(pid, pl) == \E j \in 1..Len(pl) : pl[j] = pid

\* _product_id_exists_anywhere after pid = _norm(pid).upper()
ExistsNormed(pid, rows) ==
    pid # <<>> /\ \E i \in 1..Len(rows) : InPidList(pid, PidList(rows[i].product_id))

\* _product_id_exists_anywhere
ProductIdExistsAnywhere(pid_in, rows) == ExistsNormed(Upper(Norm(pid_in)), rows)

\* _contact_group_units: <<done, total>> over the rows of a contact with a
\* non-blank, non-NoScan SKU
RECURSIVE SumFrom(_, _)
SumFrom(vals, n) == IF n = 0 THEN 0 ELSE vals[n] + SumFrom(vals, n - 1)

\* group membership that forgets to leave the NoScan rows out
InGroupWithNoScan(row, contact) ==
    /\ Norm(row.contact_number) = Norm(contact)
    /\ Norm(row.sku) # <<>>

InGroup(row, contact) ==
    /\ Norm(row.contact_number) = Norm(contact)
    /\ Norm(row.sku) # <<>>
    /\ SkuType(Norm(row.sku)) # "NoScan"

\* _contact_group_units summing over every row of the contact
ContactGroupUnitsAllLines(rows, contact) ==
    << SumFrom([i \in 1..Len(rows) |->
                  IF Norm(rows[i].contact_number) = Norm(contact)
                  THEN RowDoneUnits(rows[i]) ELSE 0], Len(rows)),
       SumFrom([i \in 1..Len(rows) |->
                  IF Norm(rows[i].contact_number) = Norm(contact)
                  THEN RowQty(rows[i]) ELSE 0], Len(rows)) >>

ContactGroupUnits(rows, contact) ==
    << SumFrom([i \in 1..Len(rows) |->
                  IF InGroup(rows[i], contact) THEN RowDoneUnits(rows[i]) ELSE 0], Len(rows)),
       SumFrom([i \in 1..Len(rows) |->
                  IF InGroup(rows[i], contact) THEN RowQty(rows[i]) ELSE 0], Len(rows)) >>

\* ------------------------------------------------------------------------
\* assign_barcode
\* ------------------------------------------------------------------------
NoPayload == [ pid |-> <<>>, sku4 |-> <<>>, contact_number |-> <<>>, group_complete |-> FALSE,
               awb |-> <<>>, row_scanned |-> 0, row_qty |-> 0,
               group_scanned |-> 0, group_qty |-> 0,
               print_info |-> <<>>, sku_type |-> "", target |-> 0 ]

\* a failed call: nothing written
ScanFail(db_rows, err, status) ==
    [ok |-> FALSE, status |-> status, err |-> err, rows |-> db_rows, wrote |-> FALSE,
     payload |-> NoPayload]

\* Candidates with the remaining-units test left out
CandidatesAnyRemaining(rows, sku4, active_awb) ==
    {i \in 1..Len(rows) :
        /\ NormalizeSkuForDb(rows[i].sku) = sku4
        /\ (active_awb # <<>> => Norm(rows[i].awb) = Norm(active_awb))}

\* Candidates with the active AWB ignored
CandidatesAnyAwb(rows, sku4, active_awb) ==
    {i \in 1..Len(rows) :
        /\ NormalizeSkuForDb(rows[i].sku) = sku4
        /\ RowRemainingUnits(rows[i]) > 0}

\* candidates: same SKU, remaining units, under the active AWB when one is given
Candidates(rows, sku4, active_awb) ==
    {i \in 1..Len(rows) :
        /\ NormalizeSkuForDb(rows[i].sku) = sku4
        /\ RowRemainingUnits(rows[i]) > 0
        /\ (active_awb # <<>> => Norm(rows[i].awb) = Norm(active_awb))}

\* Counter over the contacts of the rows that have a SKU
CntByContact(rows, contact) ==
    Cardinality({i \in 1..Len(rows) :
                    Norm(rows[i].sku) # <<>> /\ Norm(rows[i].contact_number) = contact})

\* singles[0] if singles else cand[0]
FirstOf(singles, cand) == IF singles # {} THEN MinOf(singles) ELSE MinOf(cand)

\* the target among the candidates
PickTarget(rows, cand) ==
    FirstOf({i \in cand : CntByContact(rows, Norm(rows[i].contact_number)) = 1
                           /\ RowQty(rows[i]) = 1},
            cand)

\* AppendPid appending the token twice
AppendPidTwice(row, pid) == PidListToStr(Append(Append(PidList(row.product_id), pid), pid))

\* AppendPid putting the new token in front
AppendPidFront(row, pid) == PidListToStr(<<pid>> \o PidList(row.product_id))

\* the product_id of the target after the append
AppendPid(row, pid) == PidListToStr(Append(PidList(row.product_id), pid))

\* a or b
OrElse(a, b) == IF a # <<>> THEN a ELSE b

\* {source_file, page_index} if src and page else None (<<>>)
PrintPair(src, page) == IF src # <<>> /\ page # <<>> THEN <<src, page>> ELSE <<>>

\* src and page from the target row, else from the first row of the group
PrintFrom(rows, t, grp) ==
    IF grp = {} THEN <<>>
    ELSE PrintPair(OrElse(Norm(rows[t].source_file), Norm(rows[MinOf(grp)].source_file)),
                   OrElse(Norm(rows[t].page_index), Norm(rows[MinOf(grp)].page_index)))

\* PrintInfo without the group_complete test
PrintInfoAlways(rows, t, contact, group_complete) ==
    PrintFrom(rows, t, {i \in 1..Len(rows) : InGroup(rows[i], contact)})

\* print_info: <<source_file, page_index>>, or <<>> for None
PrintInfo(rows, t, contact, group_complete) ==
    IF ~group_complete THEN <<>>
    ELSE PrintFrom(rows, t, {i \in 1..Len(rows) : InGroup(rows[i], contact)})

\* the payload of a successful call
Payload(rows, t, pid, sku4, sku_type, contact, units, group_complete) ==
    [ pid |-> pid, sku4 |-> sku4, contact_number |-> contact,
      group_complete |-> group_complete,
      awb |-> Norm(rows[t].awb),
      row_scanned |-> RowDoneUnits(rows[t]),
      row_qty |-> RowQty(rows[t]),
      group_scanned |-> units[1], group_qty |-> units[2],
      print_info |-> PrintInfo(rows, t, contact, group_complete),
      sku_type |-> sku_type, target |-> t ]

\* (done, total) of the contact known: group_complete and the payload
ScanCounted(rows, t, pid, sku4, sku_type, contact, units) ==
    [ ok |-> TRUE, status |-> 200, err |-> "", rows |-> rows, wrote |-> TRUE,
      payload |-> Payload(rows, t, pid, sku4, sku_type, contact, units,
                          units[2] > 0 /\ units[1] >= units[2]) ]

\* completion for the contact of the target
ScanContact(rows, t, pid, sku4, sku_type, contact) ==
    ScanCounted(rows, t, pid, sku4, sku_type, contact, ContactGroupUnits(rows, contact))

\* rows: the store written by _write_all
ScanWritten(rows, t, pid, sku4, sku_type) ==
    ScanContact(rows, t, pid, sku4, sku_type, Norm(rows[t].contact_number))

\* append pid to the target t
ScanTarget(db_rows, t, pid, sku4, sku_type) ==
    ScanWritten([db_rows EXCEPT ![t].product_id = AppendPid(db_rows[t], pid)],
                t, pid, sku4, sku_type)

\* 404 without a candidate, else the target
ScanAmong(db_rows, cand, pid, sku4, sku_type) ==
    IF cand = {} THEN ScanFail(db_rows, "NoCandidate", 404)
    ELSE ScanTarget(db_rows, PickTarget(db_rows, cand), pid, sku4, sku_type)

\* ScanTyped with the candidates looked for before the uniqueness test
ScanTypedCandidatesFirst(db_rows, sku4, pid, sku_type, active_awb) ==
    IF Candidates(db_rows, sku4, active_awb) = {} THEN ScanFail(db_rows, "NoCandidate", 404)
    ELSE IF sku_type \in {"Compulsory", "Unknown"} /\ ProductIdExistsAnywhere(pid, db_rows)
    THEN ScanFail(db_rows, "DuplicateToken", 409)
    ELSE ScanAmong(db_rows, Candidates(db_rows, sku4, active_awb), pid, sku4, sku_type)

\* global uniqueness for Compulsory/Unknown SKUs, then the candidates
ScanTyped(db_rows, sku4, pid, sku_type, active_awb) ==
    IF sku_type \in {"Compulsory", "Unknown"} /\ ProductIdExistsAnywhere(pid, db_rows)
    THEN ScanFail(db_rows, "DuplicateToken", 409)
    ELSE ScanAmong(db_rows, Candidates(db_rows, sku4, active_awb), pid, sku4, sku_type)

\* assign_barcode after _parse_barcode
ScanParsed(db_rows, parsed, active_awb) ==
    IF ~parsed.ok THEN ScanFail(db_rows, parsed.err, parsed.status)
    ELSE ScanTyped(db_rows, parsed.sku4, parsed.pid, SkuType(parsed.sku4), active_awb)

\* assign_barcode: [ok, status, err, rows, wrote, payload]
AssignBarcode(db_rows, barcode, active_awb, ms) ==
    ScanParsed(db_rows, ParseBarcode(Upper(barcode), ms), active_awb)

\* ------------------------------------------------------------------------
\* Inputs
\* ------------------------------------------------------------------------
Raw(contact, name, sku, qty, awb, sf, page) ==
    [ order_date |-> <<"1">>, order_id |-> <<"5">>, customer_name |-> <<"Q">>,
      contact_number |-> contact, product_name |-> name, sku |-> sku, quantity |-> qty,
      awb |-> awb, source_file |-> sf, page_index |-> page ]

\* the line items the extractor hands to upsert_orders
Catalog ==
    << Raw(<<"9">>, <<"p">>, <<"a", "t", "1">>, 1, <<"w", "1">>, <<"U">>, <<"1">>),
       Raw(<<"9">>, <<"q">>, <<"L", "S", "2">>, 2, <<"w", "1">>, <<"U">>, <<>>),
       Raw(<<"9">>, <<"t">>, <<"N", "S", "-", "3">>, 0, <<"w", "1">>, <<"U">>, <<>>),
       Raw(<<"8">>, <<"p">>, <<"A", "T", "1">>, 2, <<"w", "2">>, <<"U">>, <<"2">>),
       Raw(<<"8">>, <<"t">>, <<>>, 1, <<"w", "2">>, <<"U">>, <<>>),
       Raw(<<"8">>, <<"a">>, <<"U", "N", "4">>, 1, <<"w", "3">>, <<"U">>, <<"2">>),
       Raw(<<" ", "9">>, <<"a">>, <<"A", "T", "0", "1">>, 1, <<" ", "w", "1">>, <<"U">>, <<"1", " ">>),
       Raw(<<"8">>, <<"t">>, <<"N", "S", "3">>, 1, <<"w", "2">>, <<"U">>, <<>>) >>

CatalogIds == 1..Len(Catalog)

\* input lists of upsert_orders, as indices into Catalog: the empty list, one
\* row, two rows (the same row twice included)
Batches == {<<>>} \cup {<<i>> : i \in CatalogIds} \cup {<<i, j>> : i \in CatalogIds, j \in CatalogIds}

RowsOf(batch) == [i \in 1..Len(batch) |-> Catalog[batch[i]]]

\* source_file argument of upsert_orders
SourceFiles == {<<"U">>}

\* scanned strings
Barcodes ==
    { <<"a", "t", "1", "-", "a", "1">>,
      <<"A", "T", "1", " ", "-", "A", "2">>,
      <<"L", "S", "2", "-", "A", "1">>,
      <<"L", "S", "2">>,
      <<"N", "S", "3", "-", "A", "1">>,
      <<"A", "T", "1", "-", "X", "Y">>,
      <<"U", "N", "4", "-", "A", "1">>,
      <<"?", "?", "?">> }

\* further scanned strings, all refused by _parse_barcode under the master
\* data above: a NoScan SKU bare and with a generic suffix, an Unknown and a
\* Compulsory SKU bare, a Compulsory SKU with five digits after the letter
FormCodes ==
    { <<"N", "S", "3">>,
      <<"N", "S", "3", "-", "Z", "Z">>,
      <<"U", "N", "4">>,
      <<"a", "t", "1">>,
      <<"A", "T", "1", "-", "A", "1", "2", "3", "4", "5">> }

\* active AWB sent with a scan (<<>>: none)
AwbHints == {<<>>, <<"w", "1">>, <<"w", "2">>}

\* int(time.time()*1000) at the scan
ClockMs == {7}

\* arguments of assign_product_id
LegacyAwbs == {<<"w", "1">>, <<"w", "2">>, <<"w", "3">>}
LegacyPids == {<<"a", "0", "0", "0", "1">>}

\* a row id no row has
UnknownRowId == <<"0">>

\* ------------------------------------------------------------------------
\* The Lock of the design: {group_key, expected_sku}, followed here as the
\* design describes it (assign_barcode itself keeps none)
\* ------------------------------------------------------------------------
NoLock == [group |-> <<>>, sku |-> <<>>]

\* x among the elements of the sequence s
InSeq(s, x) == \E j \in 1..Len(s) : s[j] = x

RECURSIVE PendingFrom(_, _, _, _)

\* row i of normalised SKU sku: appended when it is pending and new
PendingRow(rows, group, i, acc, sku) ==
    IF InGroup(rows[i], group) /\ RowRemainingUnits(rows[i]) > 0 /\ ~InSeq(acc, sku)
    THEN PendingFrom(rows, group, i + 1, Append(acc, sku))
    ELSE PendingFrom(rows, group, i + 1, acc)

\* SKUs of the group, NoScan excluded, with remaining > 0, in store order
PendingFrom(rows, group, i, acc) ==
    IF i > Len(rows) THEN acc
    ELSE PendingRow(rows, group, i, acc, NormalizeSkuForDb(rows[i].sku))

PendingSkus(rows, group) == PendingFrom(rows, group, 1, <<>>)

IsPending(rows, group, sku) == InSeq(PendingSkus(rows, group), sku)

\* the Lock base once the pending SKUs pend of its group are known
LockAmong(base, pend) ==
    IF pend = <<>> THEN NoLock
    ELSE IF InSeq(pend, base.sku) THEN base
    ELSE [group |-> base.group, sku |-> pend[1]]

\* advance or release the Lock base against the store
LockAdvance(base, rows) == LockAmong(base, PendingSkus(rows, base.group))

\* acquire on the first allocation, advance when the SKU is resolved,
\* release when the group has nothing pending
LockAfter(lk, rows, group, sku4) ==
    LockAdvance(IF lk = NoLock THEN [group |-> group, sku |-> sku4] ELSE lk, rows)

\* step 4: a Lock whose group has nothing pending is released
Revalidated(lk, rows) ==
    IF lk # NoLock /\ PendingSkus(rows, lk.group) = <<>> THEN NoLock ELSE lk

\* the Lock after a call on the store rows that returned r: steps 4, 5 and 8
\* on success, step 4 alone when no candidate was found, and the Lock as it
\* was when the call ended at step 1 or 2
LockAfterCall(lk, rows, r) ==
    IF r.ok
    THEN LockAfter(Revalidated(lk, rows), r.rows, r.payload.contact_number, r.payload.sku4)
    ELSE IF r.err = "NoCandidate" THEN Revalidated(lk, rows)
    ELSE lk

\* ------------------------------------------------------------------------
\* State
\* ------------------------------------------------------------------------
VARIABLES
    db,        \* orders_db.csv: the sequence of rows
    ingested,  \* indices of the catalog rows handed to upsert_orders so far
    lock,      \* the Lock the design would hold after the calls so far
    pend,      \* per request thread: the call between its _read_all and its _write_all
    cres,      \* per request thread: what its finished call returned
    fs,        \* orders_db.csv.tmp and the file handles of the threads inside _write_all
    reg        \* the master CSV files, the two lru_caches and the lookups under way

vars == <<db, ingested, lock, pend, cres, fs, reg>>

\* the request threads of the Flask server
Threads == {"t1", "t2"}

\* what a call reports: the operation, success, and for a scan the token, the
\* class, the target row and the units it had left; for an upload the row ids
\* it inserted
NoReport == [ op |-> "none", ok |-> FALSE, pid |-> <<>>, sku_type |-> "", target |-> 0,
              left |-> 0, ids |-> {} ]

Idle == [pc |-> "idle", rows |-> <<>>, report |-> NoReport]

\* a thread outside _write_all: no list to write, no handle
NoWriter == [pc |-> "idle", rows |-> <<>>, pos |-> 0, on |-> "none"]

\* a thread outside _sku_type
NoLookup == [pc |-> "idle", k |-> <<>>, ev |-> "none", mv |-> "none", answer |-> "", overlap |-> FALSE]

Init ==
    /\ db = <<>>
    /\ ingested = {}
    /\ lock = NoLock
    /\ pend = [t \in Threads |-> Idle]
    /\ cres = [t \in Threads |-> NoReport]
    /\ fs = [has_tmp |-> FALSE, tmp |-> <<>>, w |-> [t \in Threads |-> NoWriter], acc |-> {}]
    /\ reg = [ disk |-> "old", master |-> "none", extras |-> "none", clearing |-> FALSE,
               look |-> [t \in Threads |-> NoLookup] ]

\* _now_iso() at the uploads
Times == {1}

\* the store and the record of uploaded rows after upsert_orders returned r
Ingested(batch, r) ==
    /\ Len(r.rows) <= MaxRows
    /\ db' = r.rows
    /\ ingested' = ingested \cup {batch[i] : i \in 1..Len(batch)}
    /\ UNCHANGED <<lock, pend, cres, fs, reg>>

\* POST /upload -> upsert_orders
Ingest ==
    \E batch \in Batches, sf \in SourceFiles, now \in Times :
        Ingested(batch, UpsertOrders(db, RowsOf(batch), sf, now))

\* POST /assign_barcode -> assign_barcode
Allocate ==
    \E barcode \in Barcodes, active_awb \in AwbHints, ms \in ClockMs :
        /\ db' = AssignBarcode(db, barcode, active_awb, ms).rows
        /\ UNCHANGED <<ingested, lock, pend, cres, fs, reg>>

\* the store after assign_barcode returned r, the Lock of the design followed along
AllocatedLocked(r) ==
    /\ db' = r.rows
    /\ lock' = LockAfterCall(lock, db, r)
    /\ UNCHANGED <<ingested, pend, cres, fs, reg>>

\* POST /assign_barcode -> assign_barcode, with the Lock
AllocateLocked ==
    \E barcode \in Barcodes, active_awb \in AwbHints, ms \in ClockMs :
        AllocatedLocked(AssignBarcode(db, barcode, active_awb, ms))

\* POST /assign -> assign_product_id
LegacyBulkAssign ==
    \E awb \in LegacyAwbs, pid \in LegacyPids :
        /\ db' = AssignProductId(db, awb, pid).rows
        /\ UNCHANGED <<ingested, lock, pend, cres, fs, reg>>

\* the row ids a caller can send: those of the store, an unknown one, a blank one
RowIds(rows) == {rows[i].row_id : i \in 1..Len(rows)} \cup {UnknownRowId, NoRowId}

\* POST /confirm_extra -> confirm_extra
Confirm ==
    \E row_id \in RowIds(db) :
        /\ db' = ConfirmExtra(db, row_id).rows
        /\ UNCHANGED <<ingested, lock, pend, cres, fs, reg>>

\* the core operations, called one after the other
Next == Ingest \/ Allocate \/ LegacyBulkAssign \/ Confirm

Spec == Init /\ [][Next]_vars

\* only uploads and scans
NextScan == Ingest \/ Allocate

SpecScan == Init /\ [][NextScan]_vars

\* uploads and scans, with the Lock of the design
NextLock == Ingest \/ AllocateLocked

SpecLock == Init /\ [][NextLock]_vars

\* the four core operations, the Lock followed along the scans
NextLockCore == Ingest \/ AllocateLocked \/ LegacyBulkAssign \/ Confirm

SpecLockCore == Init /\ [][NextLockCore]_vars

\* every core operation but the legacy one
NextNoLegacy == Ingest \/ Allocate \/ Confirm

SpecNoLegacy == Init /\ [][NextNoLegacy]_vars

\* ------------------------------------------------------------------------
\* Two requests served at the same time: app.run() serves each request on
\* its own thread and db.py takes no lock, so a call is a read of the file
\* (_read_all), a computation on the rows read, and a replacement of the
\* file (_write_all)
\* ------------------------------------------------------------------------
Report(op, ok) == [NoReport EXCEPT !.op = op, !.ok = ok]

\* a thread serves one request
CanStart(t) == pend[t] = Idle /\ cres[t] = NoReport

\* the call of thread t has read the file: it either returns at once (nothing
\* to write) or holds the rows it is about to write
Started(t, r, report) ==
    /\ IF r.wrote
       THEN /\ pend' = [pend EXCEPT ![t] = [pc |-> "write", rows |-> r.rows, report |-> report]]
            /\ UNCHANGED cres
       ELSE /\ cres' = [cres EXCEPT ![t] = report]
            /\ UNCHANGED pend
    /\ UNCHANGED <<db, ingested, lock, fs, reg>>

\* what an upload that computed r reports: the row ids it inserted
IngestReport(r) ==
    [Report("ingest", TRUE) EXCEPT
        !.ids = {r.rows[i].row_id : i \in (Len(db) + 1)..Len(r.rows)}]

StartedIngest(t, r) == Len(r.rows) <= MaxRows /\ Started(t, r, IngestReport(r))

\* upsert_orders up to its _write_all
BeginIngest(t) ==
    CanStart(t) /\ \E batch \in Batches, sf \in SourceFiles, now \in Times :
        StartedIngest(t, UpsertOrders(db, RowsOf(batch), sf, now))

\* what a scan that computed r reports
AllocateReport(r) ==
    IF r.ok
    THEN [Report("allocate", TRUE) EXCEPT
            !.pid = r.payload.pid, !.sku_type = r.payload.sku_type,
            !.target = r.payload.target,
            !.left = RowRemainingUnits(db[r.payload.target])]
    ELSE Report("allocate", FALSE)

StartedAllocate(t, r) == Started(t, r, AllocateReport(r))

\* assign_barcode up to its _write_all
BeginAllocate(t) ==
    CanStart(t) /\ \E barcode \in Barcodes, active_awb \in AwbHints, ms \in ClockMs :
        StartedAllocate(t, AssignBarcode(db, barcode, active_awb, ms))

StartedLegacy(t, r) == Started(t, r, Report("legacy", r.ok))

\* assign_product_id up to its _write_all
BeginLegacy(t) ==
    CanStart(t) /\ \E awb \in LegacyAwbs, pid \in LegacyPids :
        StartedLegacy(t, AssignProductId(db, awb, pid))

StartedConfirm(t, r) == Started(t, r, Report("confirm", r.ok))

\* confirm_extra up to its _write_all
BeginConfirm(t) ==
    CanStart(t) /\ \E row_id \in RowIds(db) :
        StartedConfirm(t, ConfirmExtra(db, row_id))

\* _write_all: os.replace puts the rows computed from the earlier read in
\* place of the file, and the call returns
Commit(t) ==
    /\ pend[t].pc = "write"
    /\ db' = pend[t].rows
    /\ cres' = [cres EXCEPT ![t] = pend[t].report]
    /\ pend' = [pend EXCEPT ![t] = Idle]
    /\ UNCHANGED <<ingested, lock, fs, reg>>

\* no request has been started yet
Quiet == \A t \in Threads : CanStart(t)

\* uploads before the two requests arrive
SetupIngest == Quiet /\ Ingest

NextConc ==
    \/ SetupIngest
    \/ \E t \in Threads : BeginIngest(t)
    \/ \E t \in Threads : BeginAllocate(t)
    \/ \E t \in Threads : BeginLegacy(t)
    \/ \E t \in Threads : BeginConfirm(t)
    \/ \E t \in Threads : Commit(t)

SpecConc == Init /\ [][NextConc]_vars

\* ------------------------------------------------------------------------
\* upsert_orders on the files: _read_all, then _write_all, which opens
\* orders_db.csv.tmp for writing (the one path every thread uses), writes the
\* rows through a buffer that reaches the file in one or more pieces, closes
\* it and renames it over orders_db.csv. db is the content of orders_db.csv,
\* that is, what _read_all returns to a reader at that moment.
\* ------------------------------------------------------------------------
\* the uploads of the request threads
FileBatches == {<<1, 2>>, <<4, 6>>}

\* what a reader finds where a file was written past its end: null bytes
HoleRow == [ order_date |-> <<>>, order_id |-> <<>>, customer_name |-> <<>>,
             contact_number |-> <<>>, product_name |-> <<>>, sku |-> <<>>,
             quantity |-> <<>>, awb |-> <<>>, product_id |-> <<>>, row_id |-> <<>>,
             created_at |-> 0, source_file |-> <<>>, page_index |-> <<>> ]

\* the content c of a file after rows[pos+1 .. pos+n] are written at offset pos
WriteChunk(c, pos, rows, n) ==
    [i \in 1..(IF Len(c) > pos + n THEN Len(c) ELSE pos + n) |->
        IF i > pos /\ i <= pos + n THEN rows[i]
        ELSE IF i <= Len(c) THEN c[i]
        ELSE HoleRow]

\* thread t has read the store and computed r; the rows it adds are recorded
FReadDone(t, r) ==
    /\ r.wrote /\ Len(r.rows) <= MaxRows
    /\ fs' = [fs EXCEPT !.w[t] = [pc |-> "read", rows |-> r.rows, pos |-> 0, on |-> "none"],
                        !.acc = @ \cup {{r.rows[i].row_id : i \in 1..Len(r.rows)}
                                           \ {db[i].row_id : i \in 1..Len(db)}}]
    /\ UNCHANGED <<db, ingested, lock, pend, cres, reg>>

\* upsert_orders up to its _write_all call
FRead(t) ==
    /\ fs.w[t].pc = "idle"
    /\ \E batch \in FileBatches, sf \in SourceFiles, now \in Times :
          FReadDone(t, UpsertOrders(db, RowsOf(batch), sf, now))

\* open(tmp, "w"): the file is created, or emptied when it is there
FOpen(t) ==
    /\ fs.w[t].pc = "read"
    /\ fs' = [fs EXCEPT !.has_tmp = TRUE, !.tmp = <<>>,
                        !.w[t].pc = "open", !.w[t].on = "tmp"]
    /\ UNCHANGED <<db, ingested, lock, pend, cres, reg>>

\* the buffer of t is flushed: the next n rows reach the file t holds open,
\* which is the temporary file, or the store once another thread has renamed
\* it, or a file no path names any more
FWrite(t) ==
    /\ fs.w[t].pc = "open"
    /\ \E n \in 1..(Len(fs.w[t].rows) - fs.w[t].pos) :
          /\ fs' = [fs EXCEPT !.w[t].pos = @ + n,
                              !.tmp = IF fs.w[t].on = "tmp"
                                      THEN WriteChunk(@, fs.w[t].pos, fs.w[t].rows, n) ELSE @]
          /\ db' = IF fs.w[t].on = "db"
                   THEN WriteChunk(db, fs.w[t].pos, fs.w[t].rows, n) ELSE db
    /\ UNCHANGED <<ingested, lock, pend, cres, reg>>

\* the file is closed and os.replace(tmp, DB_PATH) runs: the temporary file
\* becomes the store with whatever it holds, and the handles other threads
\* have on it now write into the store; FileNotFoundError when another
\* thread has renamed it already
FReplace(t) ==
    /\ fs.w[t].pc = "open" /\ fs.w[t].pos = Len(fs.w[t].rows)
    /\ db' = IF fs.has_tmp THEN fs.tmp ELSE db
    /\ fs' = IF ~fs.has_tmp THEN [fs EXCEPT !.w[t] = NoWriter]
             ELSE [fs EXCEPT !.has_tmp = FALSE, !.tmp = <<>>,
                             !.w = [u \in Threads |->
                                      IF u = t THEN NoWriter
                                      ELSE [fs.w[u] EXCEPT !.on = IF @ = "tmp" THEN "db"
                                                                 ELSE IF @ = "db" THEN "gone"
                                                                 ELSE @]]]
    /\ UNCHANGED <<ingested, lock, pend, cres, reg>>

NextFile == \E t \in Threads : FRead(t) \/ FOpen(t) \/ FWrite(t) \/ FReplace(t)

SpecFile == Init /\ [][NextFile]_vars

\* ------------------------------------------------------------------------
\* _sku_type against the two lru_caches while the CSV files are replaced and
\* reload_masters runs. A cache holds "none" (cleared, or never filled) or
\* the version of the file it was filled from.
\* ------------------------------------------------------------------------
\* the two files before and after the administrator replaces them: in the
\* new version LS0002 has moved from the master to the NoScan list and
\* NS0003 has left the NoScan list
RegistryOf(v) ==
    IF v = "old" THEN [extras |-> LoadExtrasNoscan, master |-> LoadSkuMaster]
    ELSE [ extras |-> {LS0002},
           master |-> [k \in {AT0001, NS0003} |-> LoadSkuMaster[k]] ]

\* _sku_type on k with the NoScan set and the master dict it was handed
TypeFrom(extras, master, k) ==
    IF k = <<>> THEN "Unknown"
    ELSE IF k \in extras THEN "NoScan"
    ELSE IF k \in DOMAIN master THEN master[k].type
    ELSE "Unknown"

\* the SKUs looked up
LookupSkus == {AT0001, LS0002, NS0003}

\* _sku_type up to `if k in _load_extras_noscan()`: the cache, filled from the
\* file when it is empty, holds version ev; NoScan at once, or on to the master
LookupExtras(t) ==
    /\ reg.look[t].pc = "idle"
    /\ \E k \in LookupSkus :
          LET ev == IF reg.extras = "none" THEN reg.disk ELSE reg.extras
          IN reg' = [reg EXCEPT
                       !.extras = ev,
                       !.look[t] = IF k \in RegistryOf(ev).extras
                                   THEN [ pc |-> "done", k |-> k, ev |-> ev, mv |-> "none",
                                          answer |-> "NoScan", overlap |-> reg.clearing ]
                                   ELSE [ pc |-> "mid", k |-> k, ev |-> ev, mv |-> "none",
                                          answer |-> "", overlap |-> reg.clearing ]]
    /\ UNCHANGED <<db, ingested, lock, pend, cres, fs>>

\* _sku_type from `info = _load_sku_master().get(k)` on: the cache, filled
\* from the file when it is empty, holds version mv
LookupMaster(t) ==
    /\ reg.look[t].pc = "mid"
    /\ LET mv == IF reg.master = "none" THEN reg.disk ELSE reg.master
       IN reg' = [reg EXCEPT
                    !.master = mv,
                    !.look[t].pc = "done",
                    !.look[t].mv = mv,
                    !.look[t].answer = TypeFrom(RegistryOf(reg.look[t].ev).extras,
                                                RegistryOf(mv).master, reg.look[t].k)]
    /\ UNCHANGED <<db, ingested, lock, pend, cres, fs>>

\* the caller has the answer
LookupReturn(t) ==
    /\ reg.look[t].pc = "done"
    /\ reg' = [reg EXCEPT !.look[t] = NoLookup]
    /\ UNCHANGED <<db, ingested, lock, pend, cres, fs>>

\* the administrator replaces data/sku_master.csv and data/extras_noscan.csv
InstallCsv ==
    /\ reg.disk = "old"
    /\ reg' = [reg EXCEPT !.disk = "new"]
    /\ UNCHANGED <<db, ingested, lock, pend, cres, fs>>

\* the lookups that are between their two reads run concurrently with the reload
Overlapped(look) ==
    [t \in Threads |-> IF look[t].pc = "mid" THEN [look[t] EXCEPT !.overlap = TRUE] ELSE look[t]]

\* reload_masters: _load_sku_master.cache_clear()
ReloadClearMaster ==
    /\ ~reg.clearing
    /\ reg' = [reg EXCEPT !.master = "none", !.clearing = TRUE, !.look = Overlapped(@)]
    /\ UNCHANGED <<db, ingested, lock, pend, cres, fs>>

\* reload_masters: _load_extras_noscan.cache_clear()
ReloadClearExtras ==
    /\ reg.clearing
    /\ reg' = [reg EXCEPT !.extras = "none", !.clearing = FALSE, !.look = Overlapped(@)]
    /\ UNCHANGED <<db, ingested, lock, pend, cres, fs>>

NextReload ==
    \/ \E t \in Threads : LookupExtras(t) \/ LookupMaster(t) \/ LookupReturn(t)
    \/ InstallCsv
    \/ ReloadClearMaster
    \/ ReloadClearExtras

SpecReload == Init /\ [][NextReload]_vars

\* ------------------------------------------------------------------------
\* get_all and init_db
\* ------------------------------------------------------------------------
\* the characters of the model in code point order
CharOrder ==
    << " ", ",", "-", "0", "1", "2", "3", "4", "5", "6", "7", "8", "9", "?",
       "A", "C", "D", "E", "F", "I", "L", "M", "N", "O", "P", "Q", "R", "S",
       "T", "U", "W", "X", "Y", "_", "a", "p", "q", "t", "w" >>

CodePoint(c) == CHOOSE i \in 1..Len(CharOrder) : CharOrder[i] = c

\* a < b on Python strings
RECURSIVE StrLess(_, _)
StrLess(a, b) ==
    IF b = <<>> THEN FALSE
    ELSE IF a = <<>> THEN TRUE
    ELSE IF Head(a) = Head(b) THEN StrLess(Tail(a), Tail(b))
    ELSE CodePoint(Head(a)) < CodePoint(Head(b))

\* the sort key (created_at, awb) of r1 is below that of r2
KeyLess(r1, r2) ==
    \/ r1.created_at < r2.created_at
    \/ (r1.created_at = r2.created_at /\ StrLess(r1.awb, r2.awb))

\* list.sort(reverse=True) is stable: a row goes behind the rows of the same key
RECURSIVE InsertNewestFirst(_, _)
InsertNewestFirst(row, sorted) ==
    IF sorted = <<>> THEN <<row>>
    ELSE IF KeyLess(Head(sorted), row) THEN <<row>> \o sorted
    ELSE <<Head(sorted)>> \o InsertNewestFirst(row, Tail(sorted))

RECURSIVE SortNewestFirst(_, _)
SortNewestFirst(rows, sorted) ==
    IF rows = <<>> THEN sorted
    ELSE SortNewestFirst(Tail(rows), InsertNewestFirst(Head(rows), sorted))

\* a row as get_all returns it: sku_type added, product_name canonical when
\* the row has a SKU
Annotated(r) ==
    ("sku_type" :> SkuType(r.sku))
    @@ [r EXCEPT !.product_name = IF r.sku # <<>>
                                  THEN CanonicalNameForSku(r.sku, r.product_name)
                                  ELSE r.product_name]

\* get_all: [rows |-> the store after the call, wrote |-> whether _write_all ran,
\* listed |-> the list returned]
GetAll(db_rows) ==
    [ rows |-> db_rows, wrote |-> FALSE,
      listed |-> SortNewestFirst([i \in 1..Len(db_rows) |-> Annotated(db_rows[i])], <<>>) ]

\* init_db: the header alone is written when there is no file
InitDb(exists, db_rows) ==
    [ rows |-> IF exists THEN db_rows ELSE <<>>, wrote |-> ~exists ]

\* GET /data -> get_all
ListAll ==
    /\ db' = GetAll(db).rows
    /\ UNCHANGED <<ingested, lock, pend, cres, fs, reg>>

\* init_db() at a start of the server, the store being there
InitExisting ==
    /\ db' = InitDb(TRUE, db).rows
    /\ UNCHANGED <<ingested, lock, pend, cres, fs, reg>>

\* the core operations, the listing and a restart
NextFrame == Ingest \/ Allocate \/ LegacyBulkAssign \/ Confirm \/ ListAll \/ InitExisting

SpecFrame == Init /\ [][NextFrame]_vars

\* ------------------------------------------------------------------------
\* Legacy calls whose product_id holds a comma
\* ------------------------------------------------------------------------
\* product_id arguments that _pid_list reads as two tokens
LegacyPidLists == {<<"a", "0", "0", "0", "2", ",", "a", "0", "0", "0", "3">>}

\* POST /assign -> assign_product_id, product_id a comma-separated list
LegacyListAssign ==
    \E awb \in LegacyAwbs, pid \in LegacyPidLists :
        /\ db' = AssignProductId(db, awb, pid).rows
        /\ UNCHANGED <<ingested, lock, pend, cres, fs, reg>>

\* the core operations, the legacy call with either kind of product_id
NextLegacyList == Ingest \/ Allocate \/ LegacyBulkAssign \/ LegacyListAssign \/ Confirm

SpecLegacyList == Init /\ [][NextLegacyList]_vars

\* ------------------------------------------------------------------------
\* Uploads of up to three lines and scans: the target among several candidates
\* ------------------------------------------------------------------------
\* the lines uploaded: a one-unit line and a NoScan extra of contact 9, a
\* two-unit line of the same SKU and a blank-SKU extra of contact 8
TieIds == {1, 3, 4, 5}

TieBatches ==
    {<<i>> : i \in TieIds} \cup {<<i, j>> : i \in TieIds, j \in TieIds}
        \cup {<<i, j, k>> : i \in TieIds, j \in TieIds, k \in TieIds}

\* the store after upsert_orders returned r, one line more than MaxRows allowed
IngestedTie(batch, r) ==
    /\ Len(r.rows) <= MaxRows + 1
    /\ db' = r.rows
    /\ ingested' = ingested \cup {batch[i] : i \in 1..Len(batch)}
    /\ UNCHANGED <<lock, pend, cres, fs, reg>>

\* POST /upload -> upsert_orders
IngestTie ==
    \E batch \in TieBatches, sf \in SourceFiles, now \in Times :
        IngestedTie(batch, UpsertOrders(db, RowsOf(batch), sf, now))

NextTie == IngestTie \/ Allocate

SpecTie == Init /\ [][NextTie]_vars

TypeOK == /\ Len(db) <= MaxRows
          /\ ingested \subseteq CatalogIds

\* ------------------------------------------------------------------------
\* Vocabulary of the properties
\* ------------------------------------------------------------------------
\* assigned_tokens of a line, and the set of its tokens
AssignedTokens(row) == PidList(row.product_id)
TokenSet(row) == {AssignedTokens(row)[j] : j \in 1..Len(AssignedTokens(row))}

Lines(rows) == 1..Len(rows)

\* class of the SKU of a line
ClassOf(row) == SkuType(row.sku)

\* lines of a group that count for completion: non-blank SKU, not NoScan
Scannable(row) == row.sku # <<>> /\ ClassOf(row) # "NoScan"
GroupLines(rows, g) == {i \in Lines(rows) : rows[i].contact_number = g /\ Scannable(rows[i])}

RECURSIVE SumQuantity(_, _)
SumQuantity(rows, S) ==
    IF S = {} THEN 0
    ELSE LET i == CHOOSE j \in S : TRUE
         IN RowQty(rows[i]) + SumQuantity(rows, S \ {i})

RECURSIVE SumDone(_, _)
SumDone(rows, S) ==
    IF S = {} THEN 0
    ELSE LET i == CHOOSE j \in S : TRUE
         IN Len(AssignedTokens(rows[i])) + SumDone(rows, S \ {i})

GroupTotal(rows, g) == SumQuantity(rows, GroupLines(rows, g))
GroupDone(rows, g) == SumDone(rows, GroupLines(rows, g))
GroupComplete(rows, g) == GroupTotal(rows, g) > 0 /\ GroupDone(rows, g) >= GroupTotal(rows, g)

Groups(rows) == {rows[i].contact_number : i \in Lines(rows)}

\* ------------------------------------------------------------------------
\* Properties
\* ------------------------------------------------------------------------

\* C1 (SpecScan): from an empty store, after uploads and scans, every line
\* holds at most quantity tokens, and a scan never changes a line that had no
\* remaining unit.
C1_Capacity ==
    /\ \A i \in Lines(db) : Len(AssignedTokens(db[i])) <= RowQty(db[i])
    /\ \A barcode \in Barcodes, active_awb \in AwbHints, ms \in ClockMs :
          LET r == AssignBarcode(db, barcode, active_awb, ms)
          IN \A i \in Lines(db) :
                r.rows[i] # db[i] => Len(AssignedTokens(db[i])) < RowQty(db[i])

\* a line of quantity 2 filled by two scans, on which a further scan of its SKU
\* finds no unit
C1_Witness ==
    \E i \in Lines(db) :
        /\ RowQty(db[i]) = 2 /\ Len(AssignedTokens(db[i])) = 2
        /\ ClassOf(db[i]) = "Loose"
        /\ \E barcode \in Barcodes, ms \in ClockMs :
              /\ ParseBarcode(Upper(barcode), ms).sku4 = db[i].sku
              /\ AssignBarcode(db, barcode, <<>>, ms).err = "NoCandidate"

\* C2 as stated (Spec): no token of a Compulsory or Unknown line is also held
\* by another line.
C2_UniqueAsStated ==
    \A i \in Lines(db), j \in Lines(db) :
        (i # j /\ ClassOf(db[i]) \in {"Compulsory", "Unknown"})
            => TokenSet(db[i]) \cap TokenSet(db[j]) = {}

\* C2 amended (SpecNoLegacy): under uploads, scans and confirmations, no token
\* is held by two different lines that both have a non-blank Compulsory or
\* Unknown SKU.
C2_UniqueAmongDeviceLines ==
    \A i \in Lines(db), j \in Lines(db) :
        (/\ i # j
         /\ db[i].sku # <<>> /\ ClassOf(db[i]) \in {"Compulsory", "Unknown"}
         /\ db[j].sku # <<>> /\ ClassOf(db[j]) \in {"Compulsory", "Unknown"})
            => TokenSet(db[i]) \cap TokenSet(db[j]) = {}

\* a Compulsory and an Unknown line that both hold tokens
C2_Witness ==
    \E i \in Lines(db), j \in Lines(db) :
        /\ ClassOf(db[i]) = "Compulsory" /\ TokenSet(db[i]) # {}
        /\ db[j].sku # <<>> /\ ClassOf(db[j]) = "Unknown" /\ TokenSet(db[j]) # {}

\* C3 (Spec): a scan for a Compulsory or Unknown SKU whose token is held by
\* any line is rejected with DuplicateToken 409; a scan for a Loose SKU never
\* is, and succeeds whenever a line of its SKU under the hint has a unit left.
C3_DuplicateRejection ==
    \A barcode \in Barcodes, active_awb \in AwbHints, ms \in ClockMs :
        LET p == ParseBarcode(Upper(barcode), ms)
            r == AssignBarcode(db, barcode, active_awb, ms)
            held == \E i \in Lines(db) : p.pid \in TokenSet(db[i])
            room == \E i \in Lines(db) :
                        /\ db[i].sku = p.sku4
                        /\ Len(AssignedTokens(db[i])) < RowQty(db[i])
                        /\ (active_awb # <<>> => db[i].awb = active_awb)
        IN p.ok =>
            /\ (SkuType(p.sku4) \in {"Compulsory", "Unknown"} /\ held)
                    => (r.status = 409 /\ r.err = "DuplicateToken")
            /\ SkuType(p.sku4) = "Loose" => r.err # "DuplicateToken"
            /\ (SkuType(p.sku4) = "Loose" /\ room) => r.ok

\* a Loose line holds the same token twice, and a Compulsory scan of that
\* token is rejected as a duplicate
C3_Witness ==
    \E i \in Lines(db), barcode \in Barcodes, ms \in ClockMs :
        LET p == ParseBarcode(Upper(barcode), ms)
        IN /\ ClassOf(db[i]) = "Loose"
           /\ Len(AssignedTokens(db[i])) = 2
           /\ AssignedTokens(db[i])[1] = AssignedTokens(db[i])[2]
           /\ p.ok /\ SkuType(p.sku4) = "Compulsory"
           /\ p.pid \in TokenSet(db[i])
           /\ AssignBarcode(db, barcode, <<>>, ms).err = "DuplicateToken"

\* C4 as stated (SpecLock): while the Lock is held for a group whose expected
\* SKU has units left, a scan of another pending SKU of that group returns
\* LockMismatch 409 and assigns nothing.
C4_LockMismatch ==
    (lock # NoLock /\ IsPending(db, lock.group, lock.sku)) =>
        \A barcode \in Barcodes, active_awb \in AwbHints, ms \in ClockMs :
            LET p == ParseBarcode(Upper(barcode), ms)
                r == AssignBarcode(db, barcode, active_awb, ms)
            IN (p.ok /\ p.sku4 # lock.sku /\ IsPending(db, lock.group, p.sku4))
                    => (r.status = 409 /\ r.err = "LockMismatch" /\ r.rows = db)

\* both threads have returned from a successful scan
BothScanned ==
    \A t \in Threads : pend[t] = Idle /\ cres[t].op = "allocate" /\ cres[t].ok

\* C5 as stated (SpecConc): two scans served at the same time never both
\* succeed with the same Compulsory or Unknown token, never both append to a
\* line that had one unit left, and leave the line within its quantity.
C5_ScansSerialized ==
    BothScanned =>
        /\ ~(/\ cres["t1"].pid = cres["t2"].pid
              /\ cres["t1"].sku_type \in {"Compulsory", "Unknown"}
              /\ cres["t2"].sku_type \in {"Compulsory", "Unknown"})
        /\ ~(/\ cres["t1"].target = cres["t2"].target
              /\ cres["t1"].left = 1 /\ cres["t2"].left = 1)
        /\ \A t \in Threads :
              Len(AssignedTokens(db[cres[t].target])) <= RowQty(db[cres[t].target])

\* what a successful call reported is in the store: the token of a scan on
\* its target row, the rows an upload counted as inserted
EffectPresent(report) ==
    /\ report.op = "allocate" =>
          (report.target \in Lines(db) /\ report.pid \in TokenSet(db[report.target]))
    /\ report.op = "ingest" =>
          report.ids \subseteq {db[i].row_id : i \in Lines(db)}

\* C6 as stated (SpecConc): when two mutating calls served at the same time
\* have both returned success, the store holds the effect of both.
C6_NoLostUpdate ==
    (\A t \in Threads : pend[t] = Idle /\ cres[t].ok)
        => \A t \in Threads : EffectPresent(cres[t])

\* C7 (Spec): an input list made of rows already handed to upsert_orders,
\* whatever was called since, inserts nothing and leaves the store as it is.
C7_IngestIdempotent ==
    \A batch \in Batches, sf \in SourceFiles, now \in Times :
        (batch # <<>> /\ \A k \in 1..Len(batch) : batch[k] \in ingested) =>
            LET r == UpsertOrders(db, RowsOf(batch), sf, now)
            IN r.added = 0 /\ r.rows = db /\ ~r.wrote

\* a row and its differently written duplicate were both uploaded, and a
\* token has been assigned since the upload
C7_Witness ==
    /\ {1, 7} \subseteq ingested
    /\ Len(db) = 2
    /\ \E i \in Lines(db) : TokenSet(db[i]) # {}

C9_DoneLeQuantity ==
    \A i \in Lines(db) : Len(AssignedTokens(db[i])) <= RowQty(db[i])

C14_PrintGuard ==
    \A barcode \in Barcodes, active_awb \in AwbHints, ms \in ClockMs :
        LET r == AssignBarcode(db, barcode, active_awb, ms)
            p == r.payload.print_info
        IN /\ ~r.ok => p = <<>>
           /\ (r.ok /\ p # <<>>) =>
                LET g == r.rows[r.payload.target].contact_number
                IN /\ r.payload.group_complete
                   /\ GroupComplete(r.rows, g)
                   /\ Len(p) = 2 /\ p[1] # <<>> /\ p[2] # <<>>
                   /\ \E i \in GroupLines(r.rows, g) : Norm(r.rows[i].source_file) = p[1]
                   /\ \E i \in GroupLines(r.rows, g) : Norm(r.rows[i].page_index) = p[2]
           /\ (r.ok /\ \A i \in GroupLines(r.rows, r.payload.contact_number) :
                           Norm(r.rows[i].page_index) = <<>>) => p = <<>>

\* one store in which a scan completes a group and returns its print target
\* and another scan completes a group without page_index and returns none
C14_Witness ==
    /\ \E barcode \in Barcodes, ms \in ClockMs :
          LET r == AssignBarcode(db, barcode, <<>>, ms)
          IN r.ok /\ r.payload.group_complete /\ r.payload.print_info # <<>>
    /\ \E barcode \in Barcodes, ms \in ClockMs :
          LET r == AssignBarcode(db, barcode, <<>>, ms)
          IN r.ok /\ r.payload.group_complete /\ r.payload.print_info = <<>>

\* C15 (Spec): a scan that returns group_complete = true returns a print
\* target whenever some counted line of the target's group carries a non-empty
\* source_file and a non-empty page_index, the target line's own values
\* first and a value it lacks taken from a group line that has it.
C15_PrintFallback ==
    \A barcode \in Barcodes, active_awb \in AwbHints, ms \in ClockMs :
        LET r == AssignBarcode(db, barcode, active_awb, ms)
            p == r.payload.print_info
            t == r.payload.target
            g == r.payload.contact_number
        IN (/\ r.ok /\ r.payload.group_complete
            /\ \E i \in GroupLines(r.rows, g) :
                  Norm(r.rows[i].source_file) # <<>> /\ Norm(r.rows[i].page_index) # <<>>)
           => /\ p # <<>>
              /\ Norm(r.rows[t].source_file) # <<>> => p[1] = Norm(r.rows[t].source_file)
              /\ Norm(r.rows[t].page_index) # <<>> => p[2] = Norm(r.rows[t].page_index)

\* the row ids a confirm call can carry, the blank one (400) left aside
GivenRowIds(rows) == RowIds(rows) \ {NoRowId}

\* the lines a row id addresses
Addressed(rows, row_id) == {i \in Lines(rows) : rows[i].row_id = row_id}

\* what C18 says of one confirm call, for the lines in Kept: success only on a
\* line with blank or NoScan SKU, Conflict 409 on a line with another SKU,
\* NotFound 404 for a row id no line has, the store unchanged on both errors,
\* and the tokens of every line in Kept unchanged
ConfirmAsClaimed(rows, row_id, Kept) ==
    LET r == ConfirmExtra(rows, row_id)
        hit == Addressed(rows, row_id)
    IN /\ Len(r.rows) = Len(rows)
       /\ r.ok => \E i \in hit : rows[i].sku = <<>> \/ ClassOf(rows[i]) = "NoScan"
       /\ (\E i \in hit : rows[i].sku # <<>> /\ ClassOf(rows[i]) # "NoScan")
              => (~r.ok /\ r.err = "Conflict" /\ r.status = 409 /\ r.rows = rows /\ ~r.wrote)
       /\ hit = {} => (~r.ok /\ r.err = "NotFound" /\ r.status = 404 /\ r.rows = rows /\ ~r.wrote)
       /\ \A i \in Kept : AssignedTokens(r.rows[i]) = AssignedTokens(rows[i])

\* C18 as stated (Spec): the lines whose tokens no confirm call changes are
\* the lines of class Compulsory, Loose or Unknown.
C18_ConfirmEligibilityAsStated ==
    \A row_id \in GivenRowIds(db) :
        ConfirmAsClaimed(db, row_id,
            {i \in Lines(db) : ClassOf(db[i]) \in {"Compulsory", "Loose", "Unknown"}})

\* C18 amended (Spec): confirm succeeds only on a line with blank or NoScan
\* SKU, returns Conflict 409 for any other line and NotFound 404 for an
\* unknown row id, both without a write, and never changes the tokens of a
\* line with a non-blank SKU of class Compulsory, Loose or Unknown.
C18_ConfirmEligibility ==
    \A row_id \in GivenRowIds(db) :
        ConfirmAsClaimed(db, row_id, {i \in Lines(db) : Scannable(db[i])})

\* a store where confirm is refused on a line that holds a token and is
\* accepted on another line
C18_Witness ==
    /\ \E row_id \in GivenRowIds(db) :
          /\ ConfirmExtra(db, row_id).err = "Conflict"
          /\ \E i \in Addressed(db, row_id) : AssignedTokens(db[i]) # <<>>
    /\ \E row_id \in GivenRowIds(db) :
          ConfirmExtra(db, row_id).ok /\ ConfirmExtra(db, row_id).rows # db

\* C19 (Spec): for every store and every confirm call, the pair (done, total)
\* of every group, as _contact_group_units computes it, and with it
\* group_complete, is the same before and after the call.
C19_ConfirmOutsideAccounting ==
    \A row_id \in RowIds(db) : \A g \in Groups(db) :
        LET r == ConfirmExtra(db, row_id)
        IN /\ ContactGroupUnits(r.rows, g) = ContactGroupUnits(db, g)
           /\ GroupDone(r.rows, g) = GroupDone(db, g)
           /\ GroupTotal(r.rows, g) = GroupTotal(db, g)
           /\ GroupComplete(r.rows, g) = GroupComplete(db, g)

\* a confirm call that writes the sentinel on a line of a group that has
\* counted lines with units left to scan
C19_Witness ==
    \E row_id \in RowIds(db) : \E g \in Groups(db) :
        LET r == ConfirmExtra(db, row_id)
        IN /\ r.ok /\ r.rows # db
           /\ \E i \in Addressed(db, row_id) : db[i].contact_number = g
           /\ GroupTotal(db, g) > 0 /\ ~GroupComplete(db, g)

\* C20 (Spec): legacyBulkAssign(awb, token) returns NotFound when no line has
\* the AWB; returns Conflict and changes nothing when a line of the AWB holds
\* a token different from token; otherwise succeeds, sets token on exactly
\* the lines of the AWB that hold no token and leaves every other line as it
\* was. A second identical call changes nothing.
C20_LegacyBulkAssign ==
    \A awb \in LegacyAwbs, pid \in LegacyPids :
        LET r == AssignProductId(db, awb, pid)
            token == Upper(Norm(pid))
            L == {i \in Lines(db) : db[i].awb = Norm(awb)}
            differs == \E i \in L : \E tok \in TokenSet(db[i]) : tok # token
        IN /\ Len(r.rows) = Len(db)
           /\ L = {} => (~r.ok /\ r.err = "NotFound" /\ r.rows = db)
           /\ (L # {} /\ differs) => (~r.ok /\ r.err = "Conflict" /\ r.rows = db)
           /\ (L # {} /\ ~differs) =>
                /\ r.ok
                /\ \A i \in Lines(db) :
                      IF i \in L /\ AssignedTokens(db[i]) = <<>>
                      THEN /\ AssignedTokens(r.rows[i]) = <<token>>
                           /\ [r.rows[i] EXCEPT !.product_id = <<>>] = [db[i] EXCEPT !.product_id = <<>>]
                      ELSE r.rows[i] = db[i]
           /\ AssignProductId(r.rows, awb, pid).rows = r.rows

\* the counted lines of the Lock's group that carry its SKU and have units left
LockedOpenLines(lk, rows) ==
    {i \in GroupLines(rows, lk.group) :
        /\ NormalizeSkuForDb(rows[i].sku) = lk.sku
        /\ RowQty(rows[i]) > Len(AssignedTokens(rows[i]))}

\* a Lock record, held or not: one group key and one SKU
IsLockRecord(lk) == DOMAIN lk = {"group", "sku"} /\ (lk.group = <<>> <=> lk = NoLock)

OpenLines(rows, g) ==
    {i \in GroupLines(rows, g) : RowQty(rows[i]) > Len(AssignedTokens(rows[i]))}

OpenSkus(rows, g) == {NormalizeSkuForDb(rows[i].sku) : i \in OpenLines(rows, g)}

\* the SKU of the first line of group g, in store order, with units left
FirstOpenSku(rows, g) ==
    NormalizeSkuForDb(rows[CHOOSE i \in OpenLines(rows, g) :
                              \A j \in OpenLines(rows, g) : i <= j].sku)

StaleLock == lock # NoLock /\ OpenSkus(db, lock.group) = {}

VisibleIds == {db[i].row_id : i \in 1..Len(db)}

\* C16 (SpecFile): at every moment, also while two uploads are under way,
\* a reader of the store finds of every upload either none or all of the rows
\* it accepted, and never a row that no call wrote.
C16_AtomicIngestVisibility ==
    /\ \A ks \in fs.acc : ks \cap VisibleIds = {} \/ ks \subseteq VisibleIds
    /\ \A i \in 1..Len(db) : db[i] # HoleRow

\* C17 (SpecReload): a lookup that ran concurrently with reload_masters has
\* computed its answer from one version of the registry: the NoScan set and
\* the type map it read are of the same version, and its answer is the class
\* that version gives the SKU.
C17_AtomicRegistryReload ==
    \A t \in Threads :
        (reg.look[t].pc = "done" /\ reg.look[t].overlap) =>
            \E v \in {"old", "new"} :
                /\ reg.look[t].ev = v
                /\ reg.look[t].mv \in {v, "none"}
                /\ reg.look[t].answer =
                       TypeFrom(RegistryOf(v).extras, RegistryOf(v).master, reg.look[t].k)

\* lines that can take a scan of sku4: that normalized SKU, remaining > 0, and
\* the hinted AWB when a hint is given
Eligible(rows, sku4, hint) ==
    {i \in Lines(rows) :
        /\ NormalizeSkuForDb(rows[i].sku) = sku4
        /\ RowQty(rows[i]) - Len(AssignedTokens(rows[i])) > 0
        /\ (hint # <<>> => Norm(rows[i].awb) = Norm(hint))}

\* the scan passes the grammar and the duplicate-token test
ReachesSelection(rows, parsed) ==
    /\ parsed.ok
    /\ ~(SkuType(parsed.sku4) \in {"Compulsory", "Unknown"}
         /\ \E i \in Lines(rows) : parsed.pid \in TokenSet(rows[i]))

\* C21 (Spec): a scan that reaches candidate selection returns NoCandidate 404
\* exactly when no line has the scanned normalized SKU with remaining > 0,
\* under the hinted AWB when a hint is given; NoCandidate is returned in no
\* other case; the line that receives the token has the scanned SKU and, with
\* a hint, the hinted AWB.
C21_CandidateSelection ==
    \A barcode \in Barcodes, active_awb \in AwbHints, ms \in ClockMs :
        LET r == AssignBarcode(db, barcode, active_awb, ms)
            parsed == ParseBarcode(Upper(barcode), ms)
        IN /\ (r.err = "NoCandidate") =
                 (ReachesSelection(db, parsed) /\ Eligible(db, parsed.sku4, active_awb) = {})
           /\ r.err = "NoCandidate" => r.status = 404 /\ ~r.ok
           /\ r.ok =>
                 /\ r.payload.target \in Eligible(db, parsed.sku4, active_awb)
                 /\ NormalizeSkuForDb(db[r.payload.target].sku) = parsed.sku4
                 /\ (active_awb # <<>> =>
                        Norm(db[r.payload.target].awb) = Norm(active_awb))
                 /\ \A i \in Lines(db) : i # r.payload.target => r.rows[i] = db[i]

\* C21 witness: a hinted scan finds no line under its AWB although a line of
\* that SKU has remaining units under another AWB, and another hinted scan is
\* assigned to a line of its AWB.
C21_Witness ==
    /\ \E barcode \in Barcodes, active_awb \in AwbHints \ {<<>>}, ms \in ClockMs :
          /\ AssignBarcode(db, barcode, active_awb, ms).err = "NoCandidate"
          /\ Eligible(db, ParseBarcode(Upper(barcode), ms).sku4, <<>>) # {}
    /\ \E barcode \in Barcodes, active_awb \in AwbHints \ {<<>>}, ms \in ClockMs :
          LET r == AssignBarcode(db, barcode, active_awb, ms)
          IN r.ok /\ Norm(db[r.payload.target].awb) = Norm(active_awb)

\* every scanned string considered by the grammar properties
AllCodes == Barcodes \cup FormCodes

\* the normalized SKU a barcode carries in device or in generic form, <<>>
\* when it matches neither
CarriedSku(code) ==
    LET m == BarcodeRxPrimary(Strip(code))
        m2 == BarcodeRxGeneric(Strip(code))
    IN IF m # <<>> THEN NormalizeSkuForDb(m[1])
       ELSE IF m2 # <<>> THEN NormalizeSkuForDb(m2[1])
       ELSE <<>>

\* C22 (SpecScan): every scan whose barcode, in device or generic form,
\* carries a NoScan SKU is rejected with NoScanRejected 409 and leaves the
\* store as it was; a successful scan never lands on a NoScan line; after any
\* uploads and scans no NoScan line holds a token.
C22_NoScanNeverScanned ==
    /\ \A i \in Lines(db) : ClassOf(db[i]) = "NoScan" => AssignedTokens(db[i]) = <<>>
    /\ \A barcode \in AllCodes, active_awb \in AwbHints, ms \in ClockMs :
          LET r == AssignBarcode(db, barcode, active_awb, ms)
              sku == CarriedSku(Upper(barcode))
          IN /\ (sku # <<>> /\ SkuType(sku) = "NoScan") =>
                    /\ ~r.ok /\ r.err = "NoScanRejected" /\ r.status = 409
                    /\ r.rows = db /\ ~r.wrote
             /\ r.ok => /\ ClassOf(db[r.payload.target]) # "NoScan"
                        /\ \A i \in Lines(db) : ClassOf(db[i]) = "NoScan" => r.rows[i] = db[i]

\* C22 witness: the store holds a NoScan line with a unit left, and a device
\* barcode and a generic barcode of its SKU are both rejected.
C22_Witness ==
    /\ \E i \in Lines(db) : ClassOf(db[i]) = "NoScan" /\ RowQty(db[i]) > 0
    /\ \E b1 \in AllCodes, b2 \in AllCodes :
          /\ BarcodeRxPrimary(Strip(Upper(b1))) # <<>>
          /\ BarcodeRxPrimary(Strip(Upper(b2))) = <<>>
          /\ AssignBarcode(db, b1, <<>>, 7).err = "NoScanRejected"
          /\ AssignBarcode(db, b2, <<>>, 7).err = "NoScanRejected"

\* one letter followed by exactly 4 digits
DeviceShape(tok) ==
    Len(tok) = 5 /\ IsAlpha(tok[1]) /\ AllDigits(SubSeq(tok, 2, 5))

\* SKU classes that require the device format
DeviceClasses == {"Compulsory", "Unknown"}

DedupKey(row) ==
    << Upper(Strip(row.awb)),
       Lower(CanonicalNameForSku(row.sku, Strip(row.product_name))),
       NormalizeSkuForDb(row.sku),
       Strip(row.quantity) >>

DedupKeys(rows) == {DedupKey(rows[i]) : i \in Lines(rows)}

NoSharedKey(rows) ==
    \A i \in Lines(rows), j \in Lines(rows) : i # j => DedupKey(rows[i]) # DedupKey(rows[j])

\* C24 (Spec): from an empty store no two lines share the Dedup Key; an upload
\* inserts one line per Dedup Key of its rows that the store does not hold,
\* however often the key occurs in the upload, and returns that number.
C24_DedupInvariant ==
    /\ NoSharedKey(db)
    /\ \A batch \in Batches, sf \in SourceFiles, now \in Times :
          LET r == UpsertOrders(db, RowsOf(batch), sf, now)
              fresh == {DedupKey(NewRow(Catalog[batch[k]], sf, now)) : k \in 1..Len(batch)}
                          \ DedupKeys(db)
          IN /\ NoSharedKey(r.rows)
             /\ r.added = Cardinality(fresh)
             /\ Len(r.rows) = Len(db) + Cardinality(fresh)
             /\ DedupKeys(r.rows) = DedupKeys(db) \cup fresh

\* C24 witness: a line and its differently written duplicate were both
\* uploaded and are stored once, and an upload that holds a new key twice
\* inserts it once.
C24_Witness ==
    /\ {1, 7} \subseteq ingested
    /\ Cardinality({i \in Lines(db) : DedupKey(db[i]) = DedupKey(NewRow(Catalog[1], <<"U">>, 1))}) = 1
    /\ \E batch \in Batches, sf \in SourceFiles, now \in Times :
          /\ Len(batch) = 2
          /\ DedupKey(NewRow(Catalog[batch[1]], sf, now)) = DedupKey(NewRow(Catalog[batch[2]], sf, now))
          /\ UpsertOrders(db, RowsOf(batch), sf, now).added = 1

\* a candidate that is the only scannable line of its group and has quantity 1
SingleItem(rows, i) ==
    /\ GroupLines(rows, rows[i].contact_number) = {i}
    /\ RowQty(rows[i]) = 1

\* the line the tie-break names among the candidates cand
TieBreak(rows, cand) ==
    IF \E i \in cand : SingleItem(rows, i)
    THEN MinOf({i \in cand : SingleItem(rows, i)})
    ELSE MinOf(cand)

\* C25 (SpecTie): a successful scan lands on the first candidate, in store
\* order, that is the only scannable line (non-blank, non-NoScan SKU) of its
\* group and has quantity 1, NoScan and blank-SKU lines of the group not
\* counted; without such a candidate, on the first candidate in store order.
C25_TieBreak ==
    \A barcode \in Barcodes, active_awb \in AwbHints, ms \in ClockMs :
        LET r == AssignBarcode(db, barcode, active_awb, ms)
        IN r.ok => r.payload.target = TieBreak(db, Eligible(db, r.payload.sku4, active_awb))

\* errors of the barcode grammar
GrammarErrors == {"InvalidBarcode", "DeviceFormatRequired", "NoScanRejected"}

\* the token of a device-class scan is already held by some line
TokenTaken(rows, parsed) ==
    /\ parsed.ok
    /\ SkuType(parsed.sku4) \in DeviceClasses
    /\ \E i \in Lines(rows) : parsed.pid \in TokenSet(rows[i])

\* C26 (Spec): the checks of a scan run in the order grammar, duplicate token,
\* candidates: a barcode the grammar refuses (malformed, or of a NoScan SKU)
\* returns the grammar's error and status, the same as on an empty store; a
\* Compulsory or Unknown scan whose token is already assigned returns
\* DuplicateToken 409 whether or not a line of its SKU has a unit left; only
\* the remaining scans return NoCandidate or succeed.
C26_ErrorPrecedence ==
    \A barcode \in AllCodes, active_awb \in AwbHints, ms \in ClockMs :
        LET r == AssignBarcode(db, barcode, active_awb, ms)
            parsed == ParseBarcode(Upper(barcode), ms)
            r0 == AssignBarcode(<<>>, barcode, active_awb, ms)
        IN /\ ~parsed.ok =>
                 /\ ~r.ok /\ r.err = parsed.err /\ r.status = parsed.status
                 /\ r.err \in GrammarErrors
                 /\ r.err = r0.err /\ r.status = r0.status
           /\ ((CarriedSku(Upper(barcode)) = <<>>) => (r.err = "InvalidBarcode" /\ r.status = 400))
           /\ TokenTaken(db, parsed) => (~r.ok /\ r.err = "DuplicateToken" /\ r.status = 409)
           /\ (r.ok \/ r.err = "NoCandidate") => (parsed.ok /\ ~TokenTaken(db, parsed))

\* C26 witness: a device scan repeats an assigned token while no line of its
\* SKU has a unit left and is refused as a duplicate, and a barcode the
\* grammar refuses is scanned while a line of its SKU has a unit left.
C26_Witness ==
    /\ \E barcode \in AllCodes :
          /\ TokenTaken(db, ParseBarcode(Upper(barcode), 7))
          /\ Eligible(db, CarriedSku(Upper(barcode)), <<>>) = {}
          /\ AssignBarcode(db, barcode, <<>>, 7).err = "DuplicateToken"
    /\ \E barcode \in AllCodes :
          /\ ~ParseBarcode(Upper(barcode), 7).ok
          /\ Eligible(db, CarriedSku(Upper(barcode)), <<>>) # {}
          /\ AssignBarcode(db, barcode, <<>>, 7).err \in GrammarErrors

\* the lines of rows that differ from the line at the same place in before
ChangedLines(before, rows) == {i \in Lines(before) : rows[i] # before[i]}

\* C27 (Spec): a successful scan keeps the number of lines, changes exactly
\* one line, the target, only in product_id, and the tokens of that line
\* after the scan are its tokens before followed by the scanned token.
C27_AllocateFrame ==
    \A barcode \in Barcodes, active_awb \in AwbHints, ms \in ClockMs :
        LET r == AssignBarcode(db, barcode, active_awb, ms)
            t == r.payload.target
        IN r.ok =>
              /\ Len(r.rows) = Len(db)
              /\ ChangedLines(db, r.rows) = {t}
              /\ [r.rows[t] EXCEPT !.product_id = db[t].product_id] = db[t]
              /\ AssignedTokens(r.rows[t]) = Append(AssignedTokens(db[t]), r.payload.pid)
              /\ r.wrote

\* C27 witness: a scan succeeds on a line that already holds a token, in a
\* store of two lines.
C27_Witness ==
    /\ Len(db) = 2
    /\ \E barcode \in Barcodes, active_awb \in AwbHints, ms \in ClockMs :
          LET r == AssignBarcode(db, barcode, active_awb, ms)
          IN /\ r.ok
             /\ AssignedTokens(db[r.payload.target]) # <<>>
             /\ r.payload.pid # AssignedTokens(db[r.payload.target])[1]

\* every line of before is at its place in after, changed at most in product_id
LinesKept(before, after) ==
    /\ Len(after) >= Len(before)
    /\ \A i \in Lines(before) :
          [after[i] EXCEPT !.product_id = before[i].product_id] = before[i]

\* C28 (SpecFrame): upload, scan, confirm, legacy assign, listing and init_db
\* on an existing store remove no line and change no field of a stored line
\* other than its tokens; only an upload adds lines, after the stored ones,
\* which it leaves as they are, and the added lines hold no token.
C28_LineLifecycle ==
    /\ \A batch \in Batches, sf \in SourceFiles, now \in Times :
          LET r == UpsertOrders(db, RowsOf(batch), sf, now)
          IN /\ LinesKept(db, r.rows)
             /\ SubSeq(r.rows, 1, Len(db)) = db
             /\ \A i \in (Len(db) + 1)..Len(r.rows) : AssignedTokens(r.rows[i]) = <<>>
    /\ \A barcode \in Barcodes, active_awb \in AwbHints, ms \in ClockMs :
          LET r == AssignBarcode(db, barcode, active_awb, ms)
          IN LinesKept(db, r.rows) /\ Len(r.rows) = Len(db)
    /\ \A row_id \in RowIds(db) :
          LET r == ConfirmExtra(db, row_id)
          IN LinesKept(db, r.rows) /\ Len(r.rows) = Len(db)
    /\ \A awb \in LegacyAwbs, pid \in LegacyPids :
          LET r == AssignProductId(db, awb, pid)
          IN LinesKept(db, r.rows) /\ Len(r.rows) = Len(db)
    /\ GetAll(db).rows = db /\ ~GetAll(db).wrote
    /\ InitDb(TRUE, db).rows = db /\ ~InitDb(TRUE, db).wrote

\* C28 witness: a store of lines that hold tokens from a scan and from a
\* confirm, which the listing returns in another order, and an upload that
\* would add a line to it.
C28_Witness ==
    /\ Len(db) = 2
    /\ \E i \in Lines(db) : Scannable(db[i]) /\ AssignedTokens(db[i]) # <<>>
    /\ \E i \in Lines(db) : db[i].product_id = CONFIRMED_EXTRA
    /\ GetAll(db).listed[1].row_id # db[1].row_id
    /\ \E batch \in Batches, sf \in SourceFiles, now \in Times :
          UpsertOrders(db, RowsOf(batch), sf, now).added > 0

\* statuses of a refused call
FailureStatuses == {400, 404, 409}

\* a refused call: one of the failure statuses, the store as it was, no write
NoEffect(r, rows) ==
    /\ r.status \in FailureStatuses
    /\ r.rows = rows
    /\ ~r.wrote

\* C29 (Spec): every scan, confirm or legacy assign that fails returns 400,
\* 404 or 409 and leaves the persisted store exactly as it was, without a
\* write; an upload that inserts no row writes nothing.
C29_RejectedNoEffect ==
    /\ \A barcode \in AllCodes, active_awb \in AwbHints, ms \in ClockMs :
          LET r == AssignBarcode(db, barcode, active_awb, ms)
          IN ~r.ok => NoEffect(r, db)
    /\ \A row_id \in RowIds(db) :
          LET r == ConfirmExtra(db, row_id)
          IN ~r.ok => NoEffect(r, db)
    /\ \A awb \in LegacyAwbs \cup {<<>>}, pid \in LegacyPids \cup {<<>>} :
          LET r == AssignProductId(db, awb, pid)
          IN ~r.ok => NoEffect(r, db)
    /\ \A batch \in Batches, sf \in SourceFiles, now \in Times :
          LET r == UpsertOrders(db, RowsOf(batch), sf, now)
          IN r.added = 0 => (r.rows = db /\ ~r.wrote)

\* C29 witness: on one store a scan fails with 404 and another with 409, a
\* confirm fails with 409, a legacy assign fails with 409 although a line of
\* its AWB has no token yet, and an upload of stored rows inserts nothing.
C29_Witness ==
    /\ \E barcode \in AllCodes, active_awb \in AwbHints :
          AssignBarcode(db, barcode, active_awb, 7).status = 404
    /\ \E barcode \in AllCodes, active_awb \in AwbHints :
          AssignBarcode(db, barcode, active_awb, 7).err = "DuplicateToken"
    /\ \E row_id \in RowIds(db) : ConfirmExtra(db, row_id).status = 409
    /\ \E awb \in LegacyAwbs, pid \in LegacyPids :
          /\ AssignProductId(db, awb, pid).status = 409
          /\ \E i \in Lines(db) : Norm(db[i].awb) = awb /\ db[i].product_id = <<>>
    /\ \E batch \in Batches \ {<<>>}, sf \in SourceFiles, now \in Times :
          UpsertOrders(db, RowsOf(batch), sf, now).added = 0

\* s is a prefix of t
IsPrefix(s, t) == Len(s) <= Len(t) /\ SubSeq(t, 1, Len(s)) = s

\* C30 (Spec): across every core operation each line keeps its place and the
\* tokens it held, in their order, at the head of the tokens it holds
\* afterwards; confirm on a line that holds a token keeps that token.
C30_TokensNeverLost ==
    [][/\ Len(db') >= Len(db)
       /\ \A i \in Lines(db) : IsPrefix(AssignedTokens(db[i]), AssignedTokens(db'[i]))]_vars

\* C31 (SpecLegacyList): whenever a scan returns group_complete = TRUE, in the
\* store after the call no line of the group with a non-blank, non-NoScan SKU
\* has a unit left, legacy assignments included.
C31_CompleteMeansNothingLeft ==
    \A barcode \in Barcodes, active_awb \in AwbHints, ms \in ClockMs :
        LET r == AssignBarcode(db, barcode, active_awb, ms)
        IN (r.ok /\ r.payload.group_complete) =>
              \A i \in GroupLines(r.rows, r.payload.contact_number) :
                  RowQty(r.rows[i]) - Len(AssignedTokens(r.rows[i])) <= 0

\* C32 (SpecLegacyList): once a scan has returned group_complete = TRUE for a
\* group, a scan that follows it with no other call in between does not land
\* on a line of that group, so it returns no second completion for the group.
C32_OnePrintSignal ==
    \A b1 \in Barcodes, a1 \in AwbHints, ms \in ClockMs :
        LET r1 == AssignBarcode(db, b1, a1, ms)
        IN (r1.ok /\ r1.payload.group_complete) =>
              \A b2 \in Barcodes, a2 \in AwbHints :
                  LET r2 == AssignBarcode(r1.rows, b2, a2, ms)
                  IN r2.ok => r2.payload.contact_number # r1.payload.contact_number

\* remaining units of a line: max(0, quantity - tokens held)
Remaining(row) ==
    IF RowQty(row) > Len(AssignedTokens(row)) THEN RowQty(row) - Len(AssignedTokens(row)) ELSE 0

\* sum of the remaining units over all lines of the store
SumRemaining(rows) == SumFrom([i \in Lines(rows) |-> Remaining(rows[i])], Len(rows))

\* C33 (SpecLegacyList): a successful scan lowers the sum of the remaining
\* units over all lines by exactly 1 and a failed scan leaves it as it is, so
\* at most that many scans in a row succeed; when the sum is 0, and as soon as
\* no line with a scannable SKU has a unit left, every scan is rejected.
C33_BoundedProgress ==
    /\ SumRemaining(db) >= 0
    /\ \A barcode \in AllCodes, active_awb \in AwbHints, ms \in ClockMs :
          LET r == AssignBarcode(db, barcode, active_awb, ms)
          IN /\ r.ok => SumRemaining(r.rows) = SumRemaining(db) - 1
             /\ ~r.ok => SumRemaining(r.rows) = SumRemaining(db)
             /\ r.ok => SumRemaining(db) > 0
             /\ (\A i \in Lines(db) : Scannable(db[i]) => Remaining(db[i]) = 0) => ~r.ok

\* C33 witness: a store of two lines, one of which holds a token, whose sum of
\* remaining units is 1; a scan succeeds, and in the store it leaves every
\* scan is rejected.
C33_Witness ==
    /\ Len(db) = 2
    /\ SumRemaining(db) = 1
    /\ \E i \in Lines(db) : AssignedTokens(db[i]) # <<>>
    /\ \E barcode \in Barcodes, active_awb \in AwbHints, ms \in ClockMs :
          LET r == AssignBarcode(db, barcode, active_awb, ms)
          IN /\ r.ok
             /\ SumRemaining(r.rows) = 0
             /\ \A b2 \in AllCodes, a2 \in AwbHints : ~AssignBarcode(r.rows, b2, a2, ms).ok

====
